---- MODULE Spec2Model ----
(***************************************************************************)
(* Model of the Shopify integration backend: the GraphQL transport         *)
(* (make_sync_graphql_request), the bulk operation driver                  *)
(* (start_bulk_operation, poll_bulk_operation, download_bulk_data), the    *)
(* three resource pull tasks, the pull coordinator, the result cache, the  *)
(* data-pull HTTP endpoints, the webhook endpoint with the database, the   *)
(* web-pixel event endpoint with its rate limiter, the OAuth install flow  *)
(* and the batch AI task with its status endpoint.                         *)
(*                                                                         *)
(* The specifications share the variables:                                 *)
(*   SpecTransport  one call of make_sync_graphql_request, POST by POST    *)
(*   SpecPull       one pull task against the remote platform              *)
(*   SpecApi        one pull task and the data-pull HTTP endpoints         *)
(*   SpecAll        pull_all_data and its three sibling pulls              *)
(*   SpecSchedule   two pull_all_data requests being scheduled             *)
(*   SpecStatus     pull_all_data, its siblings and the status endpoint    *)
(*   SpecSame       the three pull tasks fed the same remote responses     *)
(*   SpecTrigger    the trigger endpoints and the coordinator they start   *)
(*   SpecWebhook    the webhook endpoint and the database                  *)
(*   SpecKeys       pulls of several shops and ids writing to one cache    *)
(*   SpecLimiter    the web-pixel event endpoint and the rate limiter      *)
(*   SpecAuth       /connect and /callback of one browser session          *)
(*   SpecBatch      one batch AI task, its worker and its polling client   *)
(***************************************************************************)
EXTENDS Integers, Sequences, FiniteSets, TLC

VARIABLES
    req,      \* the running make_sync_graphql_request call (SpecTransport)
    bulkOps,  \* the remote platform's bulk operations of the store, oldest first
    job,      \* task id -> the task's local state (position, locals, return value)
    backend,  \* task id -> what the Celery result backend records for it
    cache,    \* redis key -> [value, ex, age]
    resp,     \* the last response of a data-pull HTTP endpoint
    db,       \* the database: shops, events and extensions
    hook,     \* the last webhook request and what receive_webhook did with it
    limiter,  \* global_rate_limiter.requests: identifier -> deque of timestamps
    clock,    \* time.monotonic() of the API process
    calls,    \* the is_allowed calls made so far: identifier, time, answer
    session,  \* request.session of the browser doing the OAuth install
    auth,     \* the last OAuth request's answer and the token exchanges made
    ai,       \* the batch AI task: the worker's run and its result-backend record
    client    \* the client running wait_for_task_completion on that task

vars == <<req, bulkOps, job, backend, cache, resp, db, hook,
          limiter, clock, calls, session, auth, ai, client>>

(***************************************************************************)
(* Bounds of the model.                                                    *)
(***************************************************************************)
MaxLines == 2          \* lines of a bulk result file
MaxRecordId == 2       \* distinct records per resource type
TickSeconds == 1800    \* seconds per clock tick
MaxExploredPolls == 1  \* status queries explored per pull in SpecApi and SpecAll
MaxCustomerId == 2     \* distinct customers named by webhooks and events
MaxStarts == 2         \* jobs existing when a trigger endpoint still accepts a request
MaxPulls == 3          \* pulls writing to one cache in SpecKeys
MaxIssued == 3         \* states /connect issues in SpecAuth
MaxStored == 2         \* tokens stored when /callback is still explored in SpecAuth
MaxCalls == 4          \* web-pixel event requests in SpecLimiter
MaxBatch == 2          \* products of a batch in SpecBatch
MaxAttempts == 4       \* max_attempts of wait_for_task_completion in SpecBatch
MaxClock == 4          \* seconds the API process's clock runs in SpecLimiter
Limit == 2             \* the limit L the endpoint passes (RATE_LIMIT_REQUESTS, 100)
PeriodSeconds == 2     \* the period T it passes (RATE_LIMIT_PERIOD_SECONDS, 60)

(***************************************************************************)
(* Program constants.                                                      *)
(***************************************************************************)
max_retries == 3
retry_delay == 5
max_attempts == 200
cache_ex == 3600
DecodeResponses == TRUE

Resources == {"customers", "products", "orders"}
Shop == "s1.myshopify.com"

(***************************************************************************)
(* GraphQL transport: make_sync_graphql_request.                           *)
(*                                                                         *)
(* An HTTP exchange is either a response with a status code and an         *)
(* optional Retry-After header, or a network failure                       *)
(* (requests.exceptions.RequestException).  A header value is the sequence *)
(* of its characters.                                                      *)
(***************************************************************************)
NoHeader == [present |-> FALSE, text |-> <<>>]
Header(t) == [present |-> TRUE, text |-> t]
RetryAfterHeaders ==
    {NoHeader, Header(<<"2">>), Header(<<"1", "0">>), Header(<<"2", ".", "0">>)}

\* The body the platform sends with each status, and the 200 body that has
\* a top-level errors array and no data.
DataText == "{\"data\":{}}"
ErrorsText == "{\"errors\":[{\"message\":\"Throttled\"}]}"
ResponseText(s) ==
    IF s = 200 THEN DataText
    ELSE IF s = 401 THEN "{\"errors\":\"[API] Invalid API key or access token\"}"
    ELSE IF s = 429 THEN "{\"errors\":\"Exceeded 2 calls per second\"}"
    ELSE "Internal Server Error"

HttpResponse(s, h) ==
    [kind |-> "http", status |-> s, retry_after |-> h, text |-> ResponseText(s)]
ErrorsResponse == [HttpResponse(200, NoHeader) EXCEPT !.text = ErrorsText]
NetworkFailure ==
    [kind |-> "neterr", status |-> 0, retry_after |-> NoHeader, text |-> ""]
Responses ==
    {HttpResponse(200, NoHeader), ErrorsResponse, HttpResponse(401, NoHeader),
     HttpResponse(500, NoHeader), NetworkFailure}
    \cup {HttpResponse(429, h) : h \in RetryAfterHeaders}

Digits == <<"0", "1", "2", "3", "4", "5", "6", "7", "8", "9">>
IsDigit(c) == \E i \in 1..10 : Digits[i] = c
DigitValue(c) == (CHOOSE i \in 1..10 : Digits[i] = c) - 1

RECURSIVE DecimalValue(_)
DecimalValue(t) ==
    IF t = <<>> THEN 0
    ELSE 10 * DecimalValue(SubSeq(t, 1, Len(t) - 1)) + DigitValue(t[Len(t)])

\* Python int(x): x is the int retry_delay when the header is absent, else the
\* header text, which must be a non-empty run of decimal digits.
PyInt(h, default) ==
    IF ~h.present THEN [ok |-> TRUE, value |-> default]
    ELSE IF h.text # <<>> /\ \A i \in 1..Len(h.text) : IsDigit(h.text[i])
         THEN [ok |-> TRUE, value |-> DecimalValue(h.text)]
         ELSE [ok |-> FALSE, value |-> 0]

NoError == [kind |-> "none", msg |-> ""]
Error(k, m) == [kind |-> k, msg |-> m]

\* The state of one call: the loop index, the POSTs issued, the sleeps taken,
\* where the call stands and what it raised.
NoResult == [keys |-> {}]
NewRequest ==
    [attempt |-> 0, posts |-> 0, slept |-> <<>>, seen |-> <<>>,
     pc |-> "loop", error |-> NoError, result |-> NoResult]

\* response.json(): the parsed body, as the set of its top-level keys.
ResponseJson(text) ==
    IF text = DataText THEN [keys |-> {"data"}]
    ELSE IF text = ErrorsText THEN [keys |-> {"errors"}]
    ELSE NoResult

\* What follows `continue`: the next iteration, or the end of the for loop.
ContinueLoop(st) ==
    IF st.attempt + 1 < max_retries
    THEN [st EXCEPT !.attempt = @ + 1]
    ELSE [st EXCEPT !.attempt = @ + 1, !.pc = "raised",
                    !.error = Error("Exception", "Max retries exceeded")]

\* A 429 branch that sleeps and retries without drawing on the attempt budget.
RateLimitedUncounted(st, r) ==
    [st EXCEPT !.slept = Append(@, retry_delay)]

\* The 429 branch: int(Retry-After or retry_delay), sleep, continue.
RateLimited(st, r) ==
    LET ra == PyInt(r.retry_after, retry_delay)
    IN IF ra.ok
       THEN ContinueLoop([st EXCEPT !.slept = Append(@, ra.value)])
       ELSE [st EXCEPT !.pc = "raised",
                       !.error = Error("ValueError", "invalid literal for int()")]

\* The except RequestException branch: back off and continue while attempts
\* remain, else re-raise.
RequestFailed(st) ==
    IF st.attempt < max_retries - 1
    THEN ContinueLoop([st EXCEPT !.slept = Append(@, retry_delay * (st.attempt + 1))])
    ELSE [st EXCEPT !.pc = "raised",
                    !.error = Error("RequestException", "connection failed")]

\* A loop that takes a server error (5xx) for transient and tries again.
RequestStepRetryServerError(st, r) ==
    LET posted == [st EXCEPT !.posts = @ + 1, !.seen = Append(@, r)]
    IN IF r.kind = "neterr" THEN RequestFailed(posted)
       ELSE IF r.status = 200
       THEN [posted EXCEPT !.pc = "returned", !.result = ResponseJson(r.text)]
       ELSE IF r.status = 429 THEN RateLimited(posted, r)
       ELSE IF r.status >= 500 THEN ContinueLoop(posted)
       ELSE [posted EXCEPT !.pc = "raised",
                           !.error = Error("Exception",
                               "Shopify API returned status code "
                               \o ToString(r.status) \o ": " \o r.text)]

\* One iteration of the for loop: one POST and the handling of its outcome r.
RequestStep(st, r) ==
    LET posted == [st EXCEPT !.posts = @ + 1, !.seen = Append(@, r)]
    IN IF r.kind = "neterr" THEN RequestFailed(posted)
       ELSE IF r.status = 200
       THEN [posted EXCEPT !.pc = "returned", !.result = ResponseJson(r.text)]
       ELSE IF r.status = 429 THEN RateLimited(posted, r)
       ELSE [posted EXCEPT !.pc = "raised",
                           !.error = Error("Exception",
                               "Shopify API returned status code "
                               \o ToString(r.status) \o ": " \o r.text)]

\* The whole call over a sequence of exchanges, stopping when it returns or raises.
RECURSIVE RunRequest(_, _)
RunRequest(st, rs) ==
    IF st.pc # "loop" \/ rs = <<>> THEN st
    ELSE RunRequest(RequestStep(st, Head(rs)), Tail(rs))

ResponseSeqs ==
    UNION {[1..n -> Responses] : n \in 1..max_retries}

\* The outcomes a call can have: it returned a 200 body, or it raised.
TransportOutcomes ==
    {[ok |-> st.pc = "returned", error |-> st.error] :
        st \in {s \in {RunRequest(NewRequest, rs) : rs \in ResponseSeqs} :
                    s.pc # "loop"}}

(***************************************************************************)
(* The remote platform: the bulk operations of the store.                  *)
(* At most one operation is active (CREATED or RUNNING) at a time, and     *)
(* currentBulkOperation reports the most recent one.  owner is the         *)
(* platform's own knowledge of who submitted the operation.                *)
(***************************************************************************)
NullUrl == "None"
UrlOf(id) == "https://bulk.example/" \o ToString(id)
NullOp ==
    [id |-> 0, type |-> "none", owner |-> "none", status |-> "none",
     url |-> NullUrl, errorCode |-> "None", objectCount |-> 0]

ActiveStatuses == {"CREATED", "RUNNING"}
TerminalStatuses == {"COMPLETED", "FAILED", "CANCELED"}

\* A result line of the platform: {"id":"<type>/<n>"}, compact as the platform writes it.
LineText(type, n) == "{\"id\":\"" \o type \o "/" \o ToString(n) \o "\"}"
BlankLine == ""
BadLine == "{\"id\":"
RecordIds == 1..MaxRecordId
LinesOf(type) == {LineText(type, n) : n \in RecordIds} \cup {BlankLine, BadLine}
FilesOf(type) == UNION {[1..n -> LinesOf(type)] : n \in 0..MaxLines}
AllFiles == UNION {FilesOf(t) : t \in Resources}
NonBlank(file) == SelectSeq(file, LAMBDA l : l # BlankLine)

HasActive(ops) == \E i \in DOMAIN ops : ops[i].status \in ActiveStatuses

\* bulkOperationRunQuery: rejected with userErrors while an operation is active,
\* else a new operation is created.
RunQuery(ops, resource, owner) ==
    IF HasActive(ops)
    THEN [ops |-> ops, body |-> "userErrors", id |-> 0]
    ELSE [ops |-> Append(ops, [NullOp EXCEPT !.id = Len(ops) + 1,
                                             !.type = resource,
                                             !.owner = owner,
                                             !.status = "CREATED"]),
          body |-> "ok", id |-> Len(ops) + 1]

\* currentBulkOperation: the most recent operation, null when there is none.
CurrentBulkOperation(ops) ==
    IF ops = <<>> THEN [shape |-> "null", op |-> NullOp]
    ELSE [shape |-> "op", op |-> ops[Len(ops)]]

NoDataBody == [shape |-> "nodata", op |-> NullOp]

\* The ways a RUNNING operation ends.  An operation without results may
\* report no url.
Completions(op, counts) ==
    {[op EXCEPT !.status = "COMPLETED", !.url = UrlOf(op.id),
                !.objectCount = n] : n \in counts}
    \cup {[op EXCEPT !.status = "COMPLETED", !.url = NullUrl],
          [op EXCEPT !.status = "FAILED", !.errorCode = "ACCESS_DENIED"],
          [op EXCEPT !.status = "CANCELED"]}

Advances(op, counts) ==
    IF op.status = "CREATED" THEN {[op EXCEPT !.status = "RUNNING"]}
    ELSE IF op.status = "RUNNING" THEN Completions(op, counts)
    ELSE {}

\* The files the url of a completed operation can serve: objectCount non-empty
\* lines of its type, with blank lines anywhere.
ServedFiles(op) ==
    IF op.url = NullUrl THEN {<<>>}
    ELSE {f \in FilesOf(op.type) : Len(NonBlank(f)) = op.objectCount}

(***************************************************************************)
(* JSON.  A parsed record is [id |-> "<type>/<n>"].  json.loads of a line  *)
(* succeeds on the texts that are records; json.dumps writes ", " and ": " *)
(* separators, so a dumped record is not the text it was loaded from.      *)
(***************************************************************************)
RecordOf(type, n) == [id |-> type \o "/" \o ToString(n)]
Records == {RecordOf(t, n) : t \in Resources, n \in RecordIds}

JsonLoadsLine(line) ==
    IF \E t \in Resources, n \in RecordIds : line = LineText(t, n)
    THEN [ok |-> TRUE,
          value |-> LET p == CHOOSE p \in Resources \X RecordIds :
                                  line = LineText(p[1], p[2])
                    IN RecordOf(p[1], p[2])]
    ELSE [ok |-> FALSE, value |-> [id |-> ""]]

DumpRecord(r) == "{\"id\": \"" \o r.id \o "\"}"

RECURSIVE JoinRecords(_)
JoinRecords(data) ==
    IF data = <<>> THEN ""
    ELSE IF Len(data) = 1 THEN DumpRecord(data[1])
    ELSE DumpRecord(data[1]) \o ", " \o JoinRecords(Tail(data))

JsonDumps(data) == "[" \o JoinRecords(data) \o "]"

RecordLists == UNION {[1..n -> Records] : n \in 0..MaxLines}

JsonLoads(text) ==
    IF \E l \in RecordLists : JsonDumps(l) = text
    THEN [ok |-> TRUE, value |-> CHOOSE l \in RecordLists : JsonDumps(l) = text]
    ELSE [ok |-> FALSE, value |-> <<>>]

(***************************************************************************)
(* download_bulk_data: GET the url, raise_for_status, then parse every     *)
(* non-empty line of the stripped text.                                    *)
(***************************************************************************)
GetOutcomes == {"ok", "httperror", "neterr"}

\* A parser that takes the first line for a header and skips it.
ParseLinesSkipHeader(file) ==
    LET kept == SubSeq(NonBlank(file), 2, Len(NonBlank(file)))
    IN [ok |-> \A i \in DOMAIN kept : JsonLoadsLine(kept[i]).ok,
        data |-> [i \in DOMAIN kept |-> JsonLoadsLine(kept[i]).value],
        error |-> Error("JSONDecodeError", "Expecting value")]

\* A parser that drops the lines that do not parse.
ParseLinesLenient(file) ==
    LET lines == SelectSeq(NonBlank(file), LAMBDA l : JsonLoadsLine(l).ok)
    IN [ok |-> TRUE, data |-> [i \in DOMAIN lines |-> JsonLoadsLine(lines[i]).value],
        error |-> NoError]

ParseLines(file) ==
    LET lines == NonBlank(file)
        parsed == [i \in DOMAIN lines |-> JsonLoadsLine(lines[i])]
    IN IF \A i \in DOMAIN parsed : parsed[i].ok
       THEN [ok |-> TRUE, data |-> [i \in DOMAIN parsed |-> parsed[i].value],
             error |-> NoError]
       ELSE [ok |-> FALSE, data |-> <<>>,
             error |-> Error("JSONDecodeError", "Expecting value")]

download_bulk_data(url, get, file) ==
    IF url = NullUrl
    THEN [ok |-> FALSE, data |-> <<>>,
          error |-> Error("RequestException", "Invalid URL 'None': No scheme supplied")]
    ELSE IF get = "neterr"
    THEN [ok |-> FALSE, data |-> <<>>,
          error |-> Error("RequestException", "connection failed")]
    ELSE IF get = "httperror"
    THEN [ok |-> FALSE, data |-> <<>>,
          error |-> Error("RequestException", "HTTPError")]
    ELSE ParseLines(file)

(***************************************************************************)
(* poll_bulk_operation.  The local state of one call: attempts made,       *)
(* sleeps taken, and how the call ended.  A call that returned leaves only *)
(* the operation it returned; a call that raised is kept as it stood.      *)
(***************************************************************************)
NewPoll == [attempts |-> 0, sleeps |-> 0, pc |-> "polling", op |-> NullOp,
            error |-> NoError]

PollRaise(p, e) == [p EXCEPT !.pc = "raised", !.error = e]

\* A loop that returns the operation as soon as it is past CREATED.
PollObserveStarted(p, body) ==
    IF body.shape = "nodata"
    THEN PollRaise(p, Error("ValueError", "Invalid response from bulk operation query"))
    ELSE IF body.shape = "null"
    THEN PollRaise(p, Error("TypeError", "'NoneType' object is not subscriptable"))
    ELSE IF body.op.status # "CREATED"
    THEN [NewPoll EXCEPT !.pc = "returned", !.op = body.op]
    ELSE [p EXCEPT !.sleeps = @ + 1]

\* What the loop does with the parsed body of a status query.
PollObserve(p, body) ==
    IF body.shape = "nodata"
    THEN PollRaise(p, Error("ValueError", "Invalid response from bulk operation query"))
    ELSE IF body.shape = "null"
    THEN PollRaise(p, Error("TypeError", "'NoneType' object is not subscriptable"))
    ELSE IF body.op.status \in TerminalStatuses
    THEN [NewPoll EXCEPT !.pc = "returned", !.op = body.op]
    ELSE [p EXCEPT !.sleeps = @ + 1]

\* A poll loop whose ceiling test is off by one (attempts > max_attempts).
PollIterationOffByOne(p, out, body) ==
    IF p.attempts > max_attempts
    THEN PollRaise(p, Error("TimeoutError", "Bulk operation polling timed out"))
    ELSE LET q == [p EXCEPT !.attempts = @ + 1]
         IN IF ~out.ok THEN PollRaise(q, out.error)
            ELSE PollObserve(q, body)

\* One iteration of the while loop; out is the outcome of the transport call
\* and body the parsed response when it returned.
PollIteration(p, out, body) ==
    IF p.attempts >= max_attempts
    THEN PollRaise(p, Error("TimeoutError", "Bulk operation polling timed out"))
    ELSE LET q == [p EXCEPT !.attempts = @ + 1]
         IN IF ~out.ok THEN PollRaise(q, out.error)
            ELSE PollObserve(q, body)

(***************************************************************************)
(* The pull tasks.  A task's world is its local state j and its entry b in *)
(* the result backend.                                                     *)
(***************************************************************************)
NoRet == [none |-> TRUE]
NoWrite == [key |-> "", value |-> "", ex |-> 0]

NewJob(resource) ==
    [resource |-> resource, pc |-> "queued", sawUserErrors |-> FALSE,
     started |-> 0, poll |-> NewPoll, file |-> <<>>, data |-> <<>>,
     wrote |-> NoWrite,
     ret |-> NoRet, error |-> NoError]

NewBackend == [state |-> "PENDING", meta |-> [none |-> TRUE]]

\* The exception classes the steps of a pull can raise; all derive from Exception.
ExceptionClasses ==
    {"Exception", "ValueError", "TypeError", "KeyError", "TimeoutError",
     "RequestException", "JSONDecodeError", "RedisError"}

\* A handler that catches only what the transport raises.
TaskCatchesTransportOnly(e) == e.kind \in {"Exception", "RequestException"}

\* except Exception as e
TaskCatches(e) == e.kind \in ExceptionClasses

FailureResult(resource, e) ==
    [success |-> FALSE, error |-> e.msg,
     message |-> "Failed to pull " \o resource \o ": " \o e.msg]

\* An exception raised in the try block: the handler marks the task FAILURE and
\* returns the failure dict; an exception it does not catch leaves the task.
Fail(w, e) ==
    IF TaskCatches(e)
    THEN [j |-> [w.j EXCEPT !.pc = "returned", !.error = e,
                            !.ret = FailureResult(w.j.resource, e)],
          b |-> [state |-> "FAILURE",
                 meta |-> [error |-> e.msg,
                           message |-> "Failed to pull " \o w.j.resource
                                       \o ": " \o e.msg]]]
    ELSE [j |-> [w.j EXCEPT !.pc = "raised", !.error = e], b |-> w.b]

\* self.update_state(state=STARTED, meta={...})
TaskBegin(w) ==
    [j |-> [w.j EXCEPT !.pc = "start"],
     b |-> [state |-> "STARTED",
            meta |-> [current |-> 0, total |-> "unknown",
                      status |-> "Starting " \o w.j.resource \o " data pull..."]]]

\* The test each task applies to the start_bulk_operation result:
\* pull_customers rejects a missing data and non-empty userErrors,
\* pull_products and pull_orders reject only a missing data.
StartCheck(resource, body) ==
    IF resource = "customers"
    THEN IF body = "nodata" THEN Error("KeyError", "'data'")
         ELSE IF body = "userErrors"
         THEN Error("Exception",
                    "Failed to start bulk operation: [{'field': None, 'message': 'A bulk query operation for this app and shop is already in progress'}]")
         ELSE NoError
    ELSE IF body = "nodata"
         THEN Error("Exception", "Failed to start bulk operation for " \o resource)
         ELSE NoError

\* start_bulk_operation and the check of its result.
PullStartStep(w, out, body, opId) ==
    IF ~out.ok THEN Fail(w, out.error)
    ELSE LET seen == [w EXCEPT !.j.sawUserErrors = (body = "userErrors"),
                               !.j.started = opId]
             e == StartCheck(w.j.resource, body)
         IN IF e # NoError THEN Fail(seen, e)
            ELSE [seen EXCEPT !.j.pc = "poll"]

\* A task that takes only FAILED for a failure and goes on to the download
\* for every other terminal status.
PullPollStepFailedOnly(w, out, body) ==
    LET p == PollIteration(w.j.poll, out, body)
        v == [w EXCEPT !.j.poll = p]
    IN IF p.pc = "raised" THEN Fail(v, p.error)
       ELSE IF p.pc = "returned"
       THEN IF p.op.status # "FAILED"
            THEN [v EXCEPT !.j.pc = "download"]
            ELSE Fail(v, Error("Exception",
                               "Bulk operation for " \o w.j.resource
                               \o " failed: " \o p.op.errorCode))
       ELSE v

\* One iteration of poll_bulk_operation inside the task, and what the task does
\* when the call returns or raises.
PullPollStep(w, out, body) ==
    LET p == PollIteration(w.j.poll, out, body)
        v == [w EXCEPT !.j.poll = p]
    IN IF p.pc = "raised" THEN Fail(v, p.error)
       ELSE IF p.pc = "returned"
       THEN IF p.op.status = "COMPLETED"
            THEN [v EXCEPT !.j.pc = "download"]
            ELSE Fail(v, Error("Exception",
                               "Bulk operation for " \o w.j.resource
                               \o " failed: " \o p.op.errorCode))
       ELSE v

\* A key that leaves out the job id.
RedisKeyPerShop(resource, shop, id) == "shopify:" \o resource \o ":" \o shop

RedisKey(resource, shop, id) == "shopify:" \o resource \o ":" \o shop \o ":" \o id

SuccessResult(resource, data) ==
    [success |-> TRUE, count |-> Len(data),
     message |-> "Successfully pulled " \o ToString(Len(data)) \o " " \o resource]

\* download_bulk_data(op["url"]), redis_client.set(key, json.dumps(data), ex=3600)
\* and the return of the success dict.
PullFinishStep(w0, id, get, file, setOk) ==
    LET w == [w0 EXCEPT !.j.file = IF get = "ok" THEN file ELSE <<>>]
        d == download_bulk_data(w.j.poll.op.url, get, file)
    IN IF ~d.ok THEN Fail(w, d.error)
       ELSE IF ~setOk
       THEN Fail([w EXCEPT !.j.data = d.data],
                 Error("RedisError", "Timeout writing to socket"))
       ELSE [w EXCEPT !.j.data = d.data,
                      !.j.wrote = [key |-> RedisKey(w.j.resource, Shop, id),
                                   value |-> JsonDumps(d.data),
                                   ex |-> cache_ex],
                      !.j.ret = SuccessResult(w.j.resource, d.data),
                      !.j.pc = "returned"]

\* The task runtime after the task function ended: a returned value is stored
\* with state SUCCESS, an exception with state FAILURE.
RuntimeStore(w) ==
    IF w.j.pc = "returned"
    THEN [j |-> [w.j EXCEPT !.pc = "done"],
          b |-> [state |-> "SUCCESS", meta |-> w.j.ret]]
    ELSE [j |-> [w.j EXCEPT !.pc = "failed"],
          b |-> [state |-> "FAILURE", meta |-> [error |-> w.j.error.msg]]]

(***************************************************************************)
(* pull_all_data: schedules the three pulls under ids derived from its own *)
(* id.  n is the number of apply_async calls that succeeded before one     *)
(* raised (3: none raised).                                                *)
(***************************************************************************)
SubtaskOrder == <<"customers", "products", "orders">>
\* A sub-job id that leaves out the parent's id.
SubtaskIdByResource(parent, resource) == "pull-" \o resource

SubtaskId(parent, resource) == parent \o "-" \o resource
Scheduled(parent, n) == {SubtaskId(parent, SubtaskOrder[i]) : i \in 1..n}
ResourceOfSubtask(parent, id) ==
    CHOOSE r \in Resources : SubtaskId(parent, r) = id

PullAllBegin(w) ==
    [j |-> [w.j EXCEPT !.pc = "start"],
     b |-> [state |-> "STARTED",
            meta |-> [current |-> 0, total |-> 3,
                      status |-> "Starting data pull..."]]]

PullAllSchedule(w, parent, n) ==
    IF n < Len(SubtaskOrder)
    THEN Fail(w, Error("Exception", "Error sending task to broker"))
    ELSE [j |-> [w.j EXCEPT !.pc = "returned",
                            !.ret = [success |-> TRUE,
                                     message |-> "Data pull tasks scheduled successfully",
                                     task_id |-> parent,
                                     subtasks |-> [r \in Resources |-> SubtaskId(parent, r)]]],
          b |-> [state |-> "STARTED",
                 meta |-> [current |-> 0, total |-> 3, status |-> "Tasks scheduled",
                           parent_task_id |-> parent,
                           subtasks |-> [r \in Resources |-> SubtaskId(parent, r)]]]]

(***************************************************************************)
(* The result cache (redis) and the data-pull endpoints.                   *)
(***************************************************************************)
EmptyCache == [k \in {} |-> NoWrite]

RedisSet(c, key, value, ex) ==
    (key :> [value |-> value, ex |-> ex, age |-> 0]) @@ c

\* GET: the value, or None once ex seconds have passed since the SET.
RedisGet(c, key) ==
    IF key \in DOMAIN c /\ c[key].age < c[key].ex
    THEN [found |-> TRUE, value |-> c[key].value]
    ELSE [found |-> FALSE, value |-> ""]

ResultsKey(data_type, shop, task_id) ==
    data_type \o "_pull:" \o shop \o ":" \o task_id

\* GET /api/data-pull/results/{shop}/{task_id}?data_type=...
\* With decode_responses the client returns str, which has no decode().
get_pull_results(c, shop, task_id, data_type) ==
    LET data == RedisGet(c, ResultsKey(data_type, shop, task_id))
    IN IF ~data.found
       THEN [status |-> 404,
             body |-> [detail |-> "Results not found or expired"]]
       ELSE IF DecodeResponses
       THEN [status |-> 500,
             body |-> [detail |-> "Error decoding data from Redis"]]
       ELSE IF ~JsonLoads(data.value).ok
       THEN [status |-> 500,
             body |-> [detail |-> "Error decoding JSON data from Redis"]]
       ELSE [status |-> 200,
             body |-> [status |-> "success", data |-> JsonLoads(data.value).value]]

\* A status endpoint that reports a job as pending until every job it knows
\* of has been started.
get_pull_status_joined(b, task_id) ==
    LET state == IF \E other \in DOMAIN b : b[other].state = "PENDING"
                 THEN "PENDING"
                 ELSE IF task_id \in DOMAIN b THEN b[task_id].state ELSE "PENDING"
    IN [status |-> 200,
        body |-> [status |-> IF state = "PENDING" THEN "pending"
                             ELSE IF state = "STARTED" THEN "in_progress"
                             ELSE IF state = "SUCCESS" THEN "completed"
                             ELSE "failed"]]

\* GET /api/data-pull/status/{task_id}
get_pull_status(b, task_id) ==
    LET state == IF task_id \in DOMAIN b THEN b[task_id].state ELSE "PENDING"
    IN [status |-> 200,
        body |-> IF state = "PENDING" THEN [status |-> "pending"]
                 ELSE IF state = "STARTED"
                 THEN [status |-> "in_progress", info |-> b[task_id].meta]
                 ELSE IF state = "SUCCESS"
                 THEN [status |-> "completed", result |-> b[task_id].meta]
                 ELSE [status |-> "failed", error |-> b[task_id].meta]]

\* The positional parameters of the pull tasks after self: shop, access_token.
TaskParams == 2

\* Task.delay(*args): the arguments are checked against the task's signature
\* when the call is made, and a call that passes sends one message under a
\* fresh task id.
Delay(args, task_id) ==
    IF Len(args) # TaskParams
    THEN [sent |-> FALSE, task_id |-> "",
          error |-> Error("TypeError",
                          "takes " \o ToString(TaskParams + 1)
                          \o " positional arguments but "
                          \o ToString(Len(args) + 1) \o " were given")]
    ELSE [sent |-> TRUE, task_id |-> task_id, error |-> NoError]

Started(d, shop) ==
    IF d.sent
    THEN [status |-> 200,
          body |-> [status |-> "started", task_id |-> d.task_id, shop |-> shop]]
    ELSE [status |-> 500, body |-> [detail |-> d.error.msg]]

\* POST /api/data-pull/start
start_data_pull(shop, access_token, task_id) ==
    Delay(<<shop, access_token>>, task_id)

\* POST /api/data-pull/customers, /products, /orders
start_resource_pull(shop, access_token, batch_size, task_id) ==
    Delay(<<shop, access_token, batch_size>>, task_id)

NoArgs == [shop |-> "", task_id |-> "", data_type |-> ""]
NoResp == [endpoint |-> "none", args |-> NoArgs, status |-> 0,
           body |-> [none |-> TRUE]]
Respond(endpoint, args, r) ==
    [endpoint |-> endpoint, args |-> args, status |-> r.status, body |-> r.body]

(***************************************************************************)
(* The database.  A shop row is kept under its shop_domain (unique); an    *)
(* event names the customer its payload carries at customer.id and at      *)
(* cart.buyerIdentity.customer.id (0: none).                               *)
(***************************************************************************)
NullToken == "None"
AccessTokenNullable == FALSE
UnknownShop == "s3.myshopify.com"

ShopRow(id, token) == [id |-> id, access_token |-> token, is_installed |-> TRUE]
EventRow(id, shop_id, customer, cart_customer) ==
    [id |-> id, shop_id |-> shop_id, customer |-> customer,
     cart_customer |-> cart_customer]
ExtensionRow(shop_id, account_id) == [shop_id |-> shop_id, account_id |-> account_id]

InitDb ==
    [shops |-> ("s1.myshopify.com" :> ShopRow(1, "tok1"))
               @@ ("s2.myshopify.com" :> ShopRow(2, "tok2")),
     events |-> {EventRow(1, 1, 1, 0), EventRow(2, 1, 0, 1),
                 EventRow(3, 1, 2, 0), EventRow(4, 2, 1, 0)},
     extensions |-> {ExtensionRow(1, "a1"), ExtensionRow(2, "a2")}]

\* The statement of a request that the database fails, if any.
DbFailures == {"none", "shop_lookup", "event_query", "delete", "commit"}

(***************************************************************************)
(* Webhooks.  A request body is empty, not UTF-8, not JSON (badjson; nul:  *)
(* bytes with an embedded null), a JSON list,                              *)
(* or a JSON object whose customer is absent, null or an object with an    *)
(* id (0: without one).                                                    *)
(***************************************************************************)
WebhookSecret == "shpss_secret"
HandledTopics == {"customers/data_request", "customers/redact", "shop/redact"}
Topics == HandledTopics \cup {"orders/create"}
MissingHeader == ""

WebhookBody(kind, customer, id) == [kind |-> kind, customer |-> customer, id |-> id]
EmptyBody == WebhookBody("empty", "absent", 0)
WebhookBodies ==
    {EmptyBody, WebhookBody("badutf8", "absent", 0),
     WebhookBody("badjson", "absent", 0), WebhookBody("nul", "absent", 0),
     WebhookBody("list", "absent", 0),
     WebhookBody("dict", "absent", 0), WebhookBody("dict", "null", 0)}
    \cup {WebhookBody("dict", "dict", c) : c \in 0..MaxCustomerId}

\* base64(HMAC-SHA256(secret, data)): a tag that determines the pair.
Hmac(secret, data) == [secret |-> secret, data |-> data]
MissingHmac == Hmac("", EmptyBody)

\* A verification that compares the key and not the body signed.
verify_key_only(data, secret, received_hmac) ==
    received_hmac.secret = secret

verify_shopify_webhook_hmac(data, secret, received_hmac) ==
    IF data = EmptyBody \/ secret = "" \/ received_hmac = MissingHmac
    THEN FALSE
    ELSE Hmac(secret, data) = received_hmac

\* json.loads(raw_body.decode('utf-8'))
JsonLoadsBody(body) ==
    IF body.kind = "badutf8"
    THEN [ok |-> FALSE, error |-> Error("UnicodeDecodeError", "invalid start byte")]
    ELSE IF body.kind \in {"badjson", "nul"}
    THEN [ok |-> FALSE, error |-> Error("JSONDecodeError", "Expecting value")]
    ELSE [ok |-> TRUE, error |-> NoError]

\* What a topic handler did: the database it leaves, the statements it
\* issued, and the exception that left it, if any.
HandlerDone(d, reads, writes) ==
    [raised |-> FALSE, error |-> NoError, db |-> d, reads |-> reads, writes |-> writes]
HandlerRaised(e, d, reads, writes) ==
    [raised |-> TRUE, error |-> e, db |-> d, reads |-> reads, writes |-> writes]
DbError == Error("OperationalError", "connection to server was lost")

\* payload.get("customer", {}).get("id")
PayloadCustomerId(payload) ==
    IF payload.kind # "dict"
    THEN [ok |-> FALSE, id |-> 0,
          error |-> Error("AttributeError", "'list' object has no attribute 'get'")]
    ELSE IF payload.customer = "null"
    THEN [ok |-> FALSE, id |-> 0,
          error |-> Error("AttributeError", "'NoneType' object has no attribute 'get'")]
    ELSE [ok |-> TRUE, id |-> payload.id, error |-> NoError]

handle_customers_data_request(shop_domain, payload, d, fail) ==
    LET c == PayloadCustomerId(payload)
    IN IF ~c.ok THEN HandlerRaised(c.error, d, 0, 0)
       ELSE IF c.id = 0 THEN HandlerDone(d, 0, 0)
       ELSE IF fail = "shop_lookup" THEN HandlerRaised(DbError, d, 1, 0)
       ELSE IF shop_domain \notin DOMAIN d.shops THEN HandlerDone(d, 1, 0)
       ELSE IF fail = "event_query" THEN HandlerRaised(DbError, d, 2, 0)
       ELSE HandlerDone(d, 2, 0)

\* A selection that leaves out Event.shop_id == db_shop.id.
EventsOfCustomerAnyShop(d, shop_id, gid) ==
    {e \in d.events : e.customer = gid \/ e.cart_customer = gid}

EventsOfCustomer(d, shop_id, gid) ==
    {e \in d.events : e.shop_id = shop_id
                      /\ (e.customer = gid \/ e.cart_customer = gid)}

handle_customers_redact(shop_domain, payload, d, fail) ==
    LET c == PayloadCustomerId(payload)
    IN IF ~c.ok THEN HandlerRaised(c.error, d, 0, 0)
       ELSE IF c.id = 0 THEN HandlerDone(d, 0, 0)
       ELSE IF fail = "shop_lookup" THEN HandlerRaised(DbError, d, 1, 0)
       ELSE IF shop_domain \notin DOMAIN d.shops THEN HandlerDone(d, 1, 0)
       ELSE LET ids == EventsOfCustomer(d, d.shops[shop_domain].id, c.id)
            IN IF fail = "event_query" THEN HandlerDone(d, 2, 0)
               ELSE IF ids = {} THEN HandlerDone(d, 2, 0)
               ELSE IF fail \in {"delete", "commit"} THEN HandlerDone(d, 2, 1)
               ELSE HandlerDone([d EXCEPT !.events = @ \ ids], 2, 1)

\* The rows as handle_shop_redact leaves them in the session before the commit.
ShopRedacted(d, shop_domain) ==
    LET sid == d.shops[shop_domain].id
    IN [shops |-> [d.shops EXCEPT ![shop_domain].access_token = NullToken,
                                  ![shop_domain].is_installed = FALSE],
        events |-> {e \in d.events : e.shop_id # sid},
        extensions |-> {x \in d.extensions : x.shop_id # sid}]

\* The commit writes access_token = NULL, which a NOT NULL column refuses.
handle_shop_redact(shop_domain, payload, d, fail) ==
    IF payload.kind # "dict"
    THEN HandlerRaised(Error("AttributeError", "'list' object has no attribute 'get'"),
                       d, 0, 0)
    ELSE IF fail = "shop_lookup" THEN HandlerRaised(DbError, d, 1, 0)
    ELSE IF shop_domain \notin DOMAIN d.shops THEN HandlerDone(d, 1, 0)
    ELSE IF fail = "delete" THEN HandlerDone(d, 1, 1)
    ELSE IF fail = "commit" \/ ~AccessTokenNullable THEN HandlerDone(d, 1, 3)
    ELSE HandlerDone(ShopRedacted(d, shop_domain), 1, 3)

Dispatch(topic, shop_domain, payload, d, fail) ==
    IF topic = "customers/data_request"
    THEN handle_customers_data_request(shop_domain, payload, d, fail)
    ELSE IF topic = "customers/redact"
    THEN handle_customers_redact(shop_domain, payload, d, fail)
    ELSE IF topic = "shop/redact"
    THEN handle_shop_redact(shop_domain, payload, d, fail)
    ELSE HandlerDone(d, 0, 0)

WebhookRequest(topic, hmac, shop, body, fail) ==
    [topic |-> topic, hmac |-> hmac, shop |-> shop, body |-> body, fail |-> fail]

NoHook ==
    [request |-> WebhookRequest(MissingHeader, MissingHmac, MissingHeader,
                                EmptyBody, "none"),
     pc |-> "idle", status |-> 0, detail |-> "", verified |-> FALSE,
     parsed |-> FALSE, handler |-> "none", reads |-> 0, writes |-> 0]

Answer(r, status, detail) == [NoHook EXCEPT !.request = r, !.status = status,
                                            !.detail = detail]

\* POST /webhooks: what the endpoint answers and did (verified: the HMAC check
\* passed; parsed: json.loads was called; handler: the topic handler called;
\* reads, writes: the statements sent to the database), and the database
\* after it.
receive_webhook(r, d) ==
    IF r.topic = MissingHeader \/ r.hmac = MissingHmac \/ r.shop = MissingHeader
    THEN [hook |-> Answer(r, 400, "Missing Shopify headers"), db |-> d]
    ELSE IF ~verify_shopify_webhook_hmac(r.body, WebhookSecret, r.hmac)
    THEN [hook |-> Answer(r, 401, "HMAC validation failed. Request is not authentic."),
          db |-> d]
    ELSE LET v == [Answer(r, 200, "webhook received") EXCEPT !.verified = TRUE,
                                                             !.parsed = TRUE]
             p == JsonLoadsBody(r.body)
         IN IF ~p.ok /\ p.error.kind = "JSONDecodeError"
            THEN [hook |-> [v EXCEPT !.detail = "Invalid JSON payload"], db |-> d]
            ELSE IF ~p.ok
            THEN [hook |-> [v EXCEPT !.status = 500, !.detail = p.error.kind], db |-> d]
            ELSE LET h == Dispatch(r.topic, r.shop, r.body, d, r.fail)
                     w == [v EXCEPT !.handler = IF r.topic \in HandledTopics
                                                THEN r.topic ELSE "none",
                                    !.reads = h.reads, !.writes = h.writes]
                 IN IF h.raised
                    THEN [hook |-> [w EXCEPT !.status = 500, !.detail = h.error.kind],
                          db |-> d]
                    ELSE [hook |-> w, db |-> h.db]

(***************************************************************************)
(* Actions.                                                                *)
(***************************************************************************)
World(id) == [j |-> job[id], b |-> backend[id]]
SetWorld(id, w) ==
    /\ job' = [job EXCEPT ![id] = w.j]
    /\ backend' = [backend EXCEPT ![id] = w.b]

IsPull(id) == job[id].resource \in Resources

\* One POST of the running make_sync_graphql_request call.
HttpPost ==
    /\ req.pc = "loop"
    /\ \E r \in Responses : req' = RequestStep(req, r)
    /\ UNCHANGED <<ai, client, limiter, clock, calls, session, auth, bulkOps, job, backend, cache, resp, db, hook>>

\* A worker takes the task from the queue (task_track_started).
WorkerReceive(id) ==
    /\ job[id].pc = "queued"
    /\ job' = [job EXCEPT ![id].pc = "begin"]
    /\ backend' = [backend EXCEPT ![id].state = "STARTED"]
    /\ UNCHANGED <<ai, client, limiter, clock, calls, session, auth, req, bulkOps, cache, resp, db, hook>>

PullBegin(id) ==
    /\ IsPull(id)
    /\ job[id].pc = "begin"
    /\ SetWorld(id, TaskBegin(World(id)))
    /\ UNCHANGED <<ai, client, limiter, clock, calls, session, auth, req, bulkOps, cache, resp, db, hook>>

\* The start mutation: a transport call, the platform's answer when the call
\* got through (throttled: a 200 body with errors and no data), and the check.
PullStart(id, outs, throttles) ==
    /\ IsPull(id)
    /\ job[id].pc = "start"
    /\ \E out \in outs, throttled \in throttles :
         LET r == IF out.ok /\ ~throttled
                  THEN RunQuery(bulkOps, job[id].resource, id)
                  ELSE [ops |-> bulkOps, body |-> "nodata", id |-> 0]
         IN /\ bulkOps' = r.ops
            /\ SetWorld(id, PullStartStep(World(id), out, r.body, r.id))
    /\ UNCHANGED <<ai, client, limiter, clock, calls, session, auth, req, cache, resp, db, hook>>

\* One iteration of the poll loop.
PullPoll(id, outs, throttles) ==
    /\ IsPull(id)
    /\ job[id].pc = "poll"
    /\ \E out \in outs, throttled \in throttles :
         SetWorld(id, PullPollStep(World(id), out,
                          IF throttled THEN NoDataBody
                          ELSE CurrentBulkOperation(bulkOps)))
    /\ UNCHANGED <<ai, client, limiter, clock, calls, session, auth, req, bulkOps, cache, resp, db, hook>>

\* Download, cache write and return.
PullFinish(id, gets, sets, files) ==
    /\ IsPull(id)
    /\ job[id].pc = "download"
    /\ \E get \in gets, setOk \in sets,
          file \in ServedFiles(job[id].poll.op) \cap files :
         LET w == PullFinishStep(World(id), id, get, file, setOk)
         IN /\ SetWorld(id, w)
            /\ cache' = IF w.j.wrote # NoWrite
                        THEN RedisSet(cache, w.j.wrote.key, w.j.wrote.value,
                                      w.j.wrote.ex)
                        ELSE cache
    /\ UNCHANGED <<ai, client, limiter, clock, calls, session, auth, req, bulkOps, resp, db, hook>>

\* The runtime stores the outcome of the task function.
TaskEnd(id) ==
    /\ job[id].pc \in {"returned", "raised"}
    /\ SetWorld(id, RuntimeStore(World(id)))
    /\ UNCHANGED <<ai, client, limiter, clock, calls, session, auth, req, bulkOps, cache, resp, db, hook>>

PullAllStart(id) ==
    /\ ~IsPull(id)
    /\ job[id].pc = "begin"
    /\ SetWorld(id, PullAllBegin(World(id)))
    /\ UNCHANGED <<ai, client, limiter, clock, calls, session, auth, req, bulkOps, cache, resp, db, hook>>

PullAll(id) ==
    /\ ~IsPull(id)
    /\ job[id].pc = "start"
    /\ \E n \in 0..Len(SubtaskOrder) :
         LET w == PullAllSchedule(World(id), id, n)
             new == Scheduled(id, n)
         IN /\ job' = [s \in new |-> NewJob(ResourceOfSubtask(id, s))]
                      @@ [job EXCEPT ![id] = w.j]
            /\ backend' = [s \in new |-> NewBackend]
                          @@ [backend EXCEPT ![id] = w.b]
    /\ UNCHANGED <<ai, client, limiter, clock, calls, session, auth, req, bulkOps, cache, resp, db, hook>>

\* The platform moves an operation on.
RemoteAdvance(counts) ==
    /\ \E i \in DOMAIN bulkOps :
         \E op \in Advances(bulkOps[i], counts) :
            bulkOps' = [bulkOps EXCEPT ![i] = op]
    /\ UNCHANGED <<ai, client, limiter, clock, calls, session, auth, req, job, backend, cache, resp, db, hook>>

\* TickSeconds pass: every live cache entry ages.
Tick ==
    /\ \E k \in DOMAIN cache : cache[k].age < cache[k].ex
    /\ cache' = [k \in DOMAIN cache |->
                    IF cache[k].age < cache[k].ex
                    THEN [cache[k] EXCEPT !.age = @ + TickSeconds]
                    ELSE cache[k]]
    /\ UNCHANGED <<ai, client, limiter, clock, calls, session, auth, req, bulkOps, job, backend, resp, db, hook>>

OtherShop == "s2.myshopify.com"

GetPullStatus ==
    /\ \E task_id \in DOMAIN backend :
         resp' = Respond("status", [NoArgs EXCEPT !.task_id = task_id],
                         get_pull_status(backend, task_id))
    /\ UNCHANGED <<ai, client, limiter, clock, calls, session, auth, req, bulkOps, job, backend, cache, db, hook>>

GetPullResults ==
    /\ \E shop \in {Shop, OtherShop}, task_id \in DOMAIN job, data_type \in Resources :
         resp' = Respond("results",
                         [shop |-> shop, task_id |-> task_id, data_type |-> data_type],
                         get_pull_results(cache, shop, task_id, data_type))
    /\ UNCHANGED <<ai, client, limiter, clock, calls, session, auth, req, bulkOps, job, backend, cache, db, hook>>

\* A webhook request arrives: any topic, shop and body, signed with the
\* secret or a guessed key over this body or another, or not signed.
WebhookArrives ==
    /\ hook.pc # "received"
    /\ \E topic \in Topics \cup {MissingHeader},
          shop \in {Shop, UnknownShop, MissingHeader},
          body \in WebhookBodies, fail \in DbFailures :
         \E hmac \in {MissingHmac, Hmac(WebhookSecret, body), Hmac("guess", body),
                       Hmac(WebhookSecret, WebhookBody("dict", "absent", 0)),
                       Hmac(WebhookSecret, EmptyBody)} :
            hook' = [NoHook EXCEPT !.pc = "received",
                        !.request = WebhookRequest(topic, hmac, shop, body, fail)]
    /\ UNCHANGED <<ai, client, limiter, clock, calls, session, auth, req, bulkOps, job, backend, cache, resp, db>>

\* receive_webhook handles the request; the answered request is dropped but
\* for its topic.
ReceiveWebhook ==
    /\ hook.pc = "received"
    /\ LET r == receive_webhook(hook.request, db)
       IN /\ hook' = [r.hook EXCEPT !.pc = "answered",
                                    !.request = [NoHook.request EXCEPT
                                                    !.topic = hook.request.topic]]
          /\ db' = r.db
    /\ UNCHANGED <<ai, client, limiter, clock, calls, session, auth, req, bulkOps, job, backend, cache, resp>>

\* The id the next .delay() call gives its task.
FreshTaskId == "j" \o ToString(Cardinality(DOMAIN job) + 1)

StartDataPull ==
    /\ Cardinality(DOMAIN job) < MaxStarts
    /\ LET d == start_data_pull(Shop, "tok1", FreshTaskId)
       IN /\ resp' = Respond("start", [NoArgs EXCEPT !.shop = Shop, !.data_type = "all"],
                             Started(d, Shop))
          /\ job' = IF d.sent THEN (d.task_id :> NewJob("all")) @@ job ELSE job
          /\ backend' = IF d.sent THEN (d.task_id :> NewBackend) @@ backend
                        ELSE backend
    /\ UNCHANGED <<ai, client, limiter, clock, calls, session, auth, req, bulkOps, cache, db, hook>>

StartResourcePull ==
    /\ Cardinality(DOMAIN job) < MaxStarts
    /\ \E resource \in Resources, batch_size \in {1, 100} :
         LET d == start_resource_pull(Shop, "tok1", batch_size, FreshTaskId)
         IN /\ resp' = Respond("start", [NoArgs EXCEPT !.shop = Shop,
                                                       !.data_type = resource],
                               Started(d, Shop))
            /\ job' = IF d.sent THEN (d.task_id :> NewJob(resource)) @@ job ELSE job
            /\ backend' = IF d.sent THEN (d.task_id :> NewBackend) @@ backend
                          ELSE backend
    /\ UNCHANGED <<ai, client, limiter, clock, calls, session, auth, req, bulkOps, cache, db, hook>>

(***************************************************************************)
(* The cache keys of pulls of several stores, resource types and jobs.     *)
(* A pull is named by (resource, shop, task id); KeyedPull is a pull whose *)
(* operation completed: download, redis SET under the key, return.  The    *)
(* task ids are those Celery hands out (no ':') and those pull_all_data    *)
(* derives from them; a shop is whatever text the trigger request gave.    *)
(***************************************************************************)
KeyShops == {"s1", "s1:p1", "s1.myshopify.com"}
KeyTaskIds == {"p1", SubtaskId("p1", "customers")}
KeyFiles(resource) == {<<>>, <<LineText(resource, 1)>>, <<BadLine>>}

KeyedPull ==
    /\ Cardinality(DOMAIN job) < MaxPulls
    /\ \E resource \in Resources, shop \in KeyShops, id \in KeyTaskIds :
         \E get \in {"ok", "httperror"}, file \in KeyFiles(resource) :
           LET t == <<resource, shop, id>>
               d == download_bulk_data(UrlOf(1), get, file)
               w == [key |-> RedisKey(resource, shop, id),
                     value |-> JsonDumps(d.data), ex |-> cache_ex]
           IN /\ t \notin DOMAIN job
              /\ job' = (t :> [NewJob(resource) EXCEPT
                                 !.pc = IF d.ok THEN "returned" ELSE "failed",
                                 !.wrote = IF d.ok THEN w ELSE NoWrite]) @@ job
              /\ cache' = IF d.ok THEN RedisSet(cache, w.key, w.value, w.ex)
                          ELSE cache
    /\ UNCHANGED <<ai, client, limiter, clock, calls, session, auth, req, bulkOps, backend, resp, db, hook>>

(***************************************************************************)
(* InMemoryRateLimiter and the web-pixel event endpoint that consults it.  *)
(* requests maps an identifier to its timestamps, oldest first; an         *)
(* identifier never seen has no entry (defaultdict).                       *)
(***************************************************************************)
NewLimiter == [a \in {} |-> <<>>]
Accounts == {"a1", "a9"}

\* while request_timestamps and request_timestamps[0] <= cutoff: popleft(),
\* with a strict comparison.
RECURSIVE DropExpiredStrict(_, _)
DropExpiredStrict(ts, cutoff) ==
    IF ts # <<>> /\ ts[1] < cutoff THEN DropExpiredStrict(Tail(ts), cutoff) ELSE ts

RECURSIVE DropExpired(_, _)
DropExpired(ts, cutoff) ==
    IF ts # <<>> /\ ts[1] <= cutoff THEN DropExpired(Tail(ts), cutoff) ELSE ts

\* A limiter that records the denied call too.
is_allowed_counting_denied(lim, identifier, limit, period_seconds, current_time) ==
    LET old == IF identifier \in DOMAIN lim THEN lim[identifier] ELSE <<>>
        ts == DropExpired(old, current_time - period_seconds)
    IN [allowed |-> Len(ts) < limit,
        requests |-> (identifier :> Append(ts, current_time)) @@ lim]

is_allowed(lim, identifier, limit, period_seconds, current_time) ==
    LET old == IF identifier \in DOMAIN lim THEN lim[identifier] ELSE <<>>
        ts == DropExpired(old, current_time - period_seconds)
    IN IF Len(ts) < limit
       THEN [allowed |-> TRUE,
             requests |-> (identifier :> Append(ts, current_time)) @@ lim]
       ELSE [allowed |-> FALSE, requests |-> (identifier :> ts) @@ lim]

\* POST web-pixel event: 429 when the limiter refuses, 404 for an account
\* without extension, 500 when the commit fails, else the event is stored.
NextEventId(d) ==
    IF d.events = {} THEN 1
    ELSE 1 + CHOOSE m \in {e.id : e \in d.events} : \A e \in d.events : e.id <= m

handle_shopify_web_pixel_event(lim, d, account_id, now, commitOk) ==
    LET a == is_allowed(lim, account_id, Limit,
                        PeriodSeconds, now)
        ext == {x \in d.extensions : x.account_id = account_id}
    IN IF ~a.allowed
       THEN [status |-> 429, allowed |-> FALSE, requests |-> a.requests, db |-> d]
       ELSE IF ext = {}
       THEN [status |-> 404, allowed |-> TRUE, requests |-> a.requests, db |-> d]
       ELSE IF ~commitOk
       THEN [status |-> 500, allowed |-> TRUE, requests |-> a.requests, db |-> d]
       ELSE [status |-> 201, allowed |-> TRUE, requests |-> a.requests,
             db |-> [d EXCEPT !.events = @ \cup
                       {EventRow(NextEventId(d), (CHOOSE x \in ext : TRUE).shop_id,
                                 0, 0)}]]

WebPixelEvent ==
    /\ Len(calls) < MaxCalls
    /\ \E account_id \in Accounts, commitOk \in BOOLEAN :
         LET r == handle_shopify_web_pixel_event(limiter, db, account_id, clock,
                                                 commitOk)
         IN /\ limiter' = r.requests
            /\ db' = r.db
            /\ calls' = Append(calls, [identifier |-> account_id, time |-> clock,
                                       allowed |-> r.allowed, status |-> r.status])
    /\ UNCHANGED <<ai, client, req, bulkOps, job, backend, cache, resp, hook, clock, session, auth>>

\* time.monotonic() moves on.
ClockAdvance ==
    /\ clock < MaxClock
    /\ clock' = clock + 1
    /\ UNCHANGED <<ai, client, req, bulkOps, job, backend, cache, resp, db, hook, limiter,
                   calls, session, auth>>

(***************************************************************************)
(* The OAuth install flow: /connect and /callback.                         *)
(*                                                                         *)
(* request.session is the content of the browser's signed session cookie   *)
(* (SessionMiddleware): a request carries it, and a response that passes   *)
(* the middleware, a redirect or an HTTPException, sets it to what the     *)
(* handler left.  An exception no handler catches is answered 500 by the   *)
(* server-error middleware outside it, and the cookie stays as it was.     *)
(* The callback's hmac is the hex HMAC-SHA256 of the sorted query without  *)
(* hmac.                                                                   *)
(***************************************************************************)
NoSession == [state |-> "", shop |-> ""]
NoAuth ==
    [endpoint |-> "none", status |-> 0, verified |-> FALSE, exchanged |-> FALSE,
     shop |-> "", state |-> "", issued |-> 0, stored |-> <<>>]

ApiSecret == WebhookSecret
InstallShops == {Shop, UnknownShop}
NewToken == "shpat_new"
ExchangeOutcomes == {"token", "http_error", "request_error", "not_json", "no_token"}

Query(shop, code, state) == [shop |-> shop, code |-> code, state |-> state]
QueryHmac(secret, query) == [secret |-> secret, query |-> query]
NoQueryHmac == QueryHmac("", Query("", "", ""))

\* verify_hmac(query_params_string, received_hmac, api_secret_key)
verify_hmac(query, received_hmac, secret) ==
    IF received_hmac = NoQueryHmac \/ secret = "" THEN FALSE
    ELSE QueryHmac(secret, query) = received_hmac

\* secrets.token_hex(16): a value not issued before.
FreshState(n) == "st" \o ToString(n + 1)

\* GET /connect?shop=...
connect_to_shopify(shop, s, a) ==
    IF shop = ""
    THEN [session |-> s,
          auth |-> [a EXCEPT !.endpoint = "connect", !.status = 400,
                             !.verified = FALSE, !.exchanged = FALSE,
                             !.shop = shop, !.state = ""]]
    ELSE [session |-> [state |-> FreshState(a.issued), shop |-> shop],
          auth |-> [a EXCEPT !.endpoint = "connect", !.status = 307,
                             !.verified = FALSE, !.exchanged = FALSE,
                             !.shop = shop, !.state = FreshState(a.issued),
                             !.issued = a.issued + 1]]

NextShopId(d) ==
    1 + CHOOSE m \in {d.shops[x].id : x \in DOMAIN d.shops} :
            \A x \in DOMAIN d.shops : d.shops[x].id <= m

\* The shops table after the callback stored access_token for shop.
TokenStored(d, shop, access_token) ==
    IF shop \in DOMAIN d.shops
    THEN [d EXCEPT !.shops[shop].access_token = access_token]
    ELSE [d EXCEPT !.shops = (shop :> ShopRow(NextShopId(d), access_token)) @@ @]

\* not (not session_state or session_state != state or session_shop != shop)
StateMatches(s, q) == s.state # "" /\ s.state = q.state /\ s.shop = q.shop

\* GET /callback?shop=..&code=..&state=..&hmac=..
shopify_callback(q, hmac, s, d, a, exchange, commitOk) ==
    LET ans == [a EXCEPT !.endpoint = "callback", !.verified = FALSE,
                         !.exchanged = FALSE, !.shop = q.shop,
                         !.state = q.state]
        ok == [ans EXCEPT !.verified = TRUE]
        ex == [ok EXCEPT !.exchanged = TRUE]
    IN IF ~verify_hmac(q, hmac, ApiSecret)
       THEN [session |-> s, db |-> d, auth |-> [ans EXCEPT !.status = 401]]
       ELSE IF ~StateMatches(s, q)
       THEN [session |-> NoSession, db |-> d, auth |-> [ok EXCEPT !.status = 403]]
       ELSE IF exchange = "http_error"
       THEN [session |-> NoSession, db |-> d, auth |-> [ex EXCEPT !.status = 500]]
       ELSE IF exchange = "request_error"
       THEN [session |-> NoSession, db |-> d, auth |-> [ex EXCEPT !.status = 503]]
       ELSE IF exchange = "not_json"
       THEN [session |-> s, db |-> d, auth |-> [ex EXCEPT !.status = 500]]
       ELSE IF exchange = "no_token"
       THEN [session |-> NoSession, db |-> d, auth |-> [ex EXCEPT !.status = 500]]
       ELSE IF ~commitOk
       THEN [session |-> NoSession, db |-> d, auth |-> [ex EXCEPT !.status = 500]]
       ELSE [session |-> NoSession,
             db |-> TokenStored(d, q.shop, NewToken),
             auth |-> [ex EXCEPT !.status = 307,
                                 !.stored = Append(@, [state |-> q.state,
                                                       shop |-> q.shop])]]

Connect ==
    /\ auth.issued < MaxIssued
    /\ \E shop \in InstallShops \cup {""} :
         LET r == connect_to_shopify(shop, session, auth)
         IN session' = r.session /\ auth' = r.auth
    /\ UNCHANGED <<ai, client, req, bulkOps, job, backend, cache, resp, db, hook, limiter,
                   clock, calls>>

Callback ==
    /\ Len(auth.stored) < MaxStored
    /\ \E shop \in InstallShops,
          state \in {FreshState(n) : n \in 0..(MaxIssued - 1)} \cup {"forged"},
          exchange \in ExchangeOutcomes, commitOk \in BOOLEAN :
         LET q == Query(shop, "code", state)
         IN \E hmac \in {QueryHmac(ApiSecret, q), QueryHmac("guess", q),
                         QueryHmac(ApiSecret, Query(UnknownShop, "code", "forged")),
                         NoQueryHmac} :
              LET r == shopify_callback(q, hmac, session, db, auth, exchange, commitOk)
              IN session' = r.session /\ db' = r.db /\ auth' = r.auth
    /\ UNCHANGED <<ai, client, req, bulkOps, job, backend, cache, resp, hook, limiter,
                   clock, calls>>

(***************************************************************************)
(* The batch AI task, the task-status endpoint and the polling client.     *)
(* One batch is submitted; the worker runs it product by product; the      *)
(* client polls GET /tasks/{task_id} as wait_for_task_completion does.     *)
(* AsyncResult reads the result backend once for .status and, the state    *)
(* read not being a ready one, again for ready(): the task may finish      *)
(* between the two reads, so the endpoint is two steps.                    *)
(***************************************************************************)
Handles == {"h1", "h2"}
NoOutputDir == "None"
OutputDirs == {"outputs", NoOutputDir}
ModelOutcomes == {"json", "none"}
max_consecutive_errors == 3

RECURSIVE Batches(_)
Batches(n) ==
    IF n = 0 THEN {<<>>}
    ELSE Batches(n - 1) \cup
         {Append(b, h) : b \in {x \in Batches(n - 1) : Len(x) = n - 1},
                         h \in Handles}

\* A result or result list that is None (null in the JSON body).
NoProducts == [present |-> FALSE, products |-> <<>>]

\* The task as the worker holds it (pc, products, output_dir, results) and
\* its record in the result backend (status; result: the return value;
\* exc: the exception raised).  A task the backend does not know is PENDING.
NoTask ==
    [pc |-> "none", products |-> <<>>, output_dir |-> NoOutputDir,
     results |-> <<>>, status |-> "PENDING", result |-> <<>>, exc |-> ""]

NoStatusData == [status |-> "", result |-> NoProducts, error |-> ""]

NoClient ==
    [pc |-> "idle", attempt |-> 0, consecutive_errors |-> 0,
     status_read |-> "", status_data |-> NoStatusData, seen |-> <<>>,
     returned |-> NoStatusData]

\* process_product: the model's JSON answer, or a dict with an "error" key;
\* either is the product's result.  The result is kept with the product it
\* was computed from.
process_product(product, outcome) ==
    [of |-> product,
     error |-> IF outcome = "json" THEN "" ELSE "No response from model"]

\* One iteration of the loop of batch_process_products, with results
\* collected in the opposite order.
batch_process_products_newest_first(t, outcome, saveOk) ==
    LET product == t.products[Len(t.results) + 1]
        result == process_product(product, outcome)
        results == <<result>> \o t.results
    IN  IF t.output_dir # NoOutputDir /\ ~saveOk
        THEN [t EXCEPT !.pc = "done", !.results = results,
                       !.status = "FAILURE", !.exc = "OSError"]
        ELSE IF Len(results) = Len(t.products)
        THEN [t EXCEPT !.pc = "done", !.results = results,
                       !.status = "SUCCESS", !.result = results]
        ELSE [t EXCEPT !.results = results]

\* One iteration of the loop of batch_process_products: process the next
\* product, append its result, save it when output_dir is given (the save
\* may raise, which fails the task); after the last product return results.
batch_process_products(t, outcome, saveOk) ==
    LET product == t.products[Len(t.results) + 1]
        result == process_product(product, outcome)
        results == Append(t.results, result)
    IN  IF t.output_dir # NoOutputDir /\ ~saveOk
        THEN [t EXCEPT !.pc = "done", !.results = results,
                       !.status = "FAILURE", !.exc = "OSError"]
        ELSE IF Len(results) = Len(t.products)
        THEN [t EXCEPT !.pc = "done", !.results = results,
                       !.status = "SUCCESS", !.result = results]
        ELSE [t EXCEPT !.results = results]

batch_process_products_task(t, outcome, saveOk) ==
    IF t.products = <<>>
    THEN [t EXCEPT !.pc = "done", !.status = "FAILURE",
                   !.exc = "Products list cannot be empty"]
    ELSE batch_process_products(t, outcome, saveOk)

\* celery.states.READY_STATES
READY_STATES == {"SUCCESS", "FAILURE", "REVOKED"}

\* get_task_status: status is the state read first, t the record read by
\* ready(); the body after serialisation by AIProcessingResponse.
get_task_status(status, t) ==
    [status |-> status,
     result |-> IF t.status = "SUCCESS"
                THEN [present |-> TRUE, products |-> t.result]
                ELSE NoProducts,
     error |-> IF t.status \in READY_STATES /\ t.status # "SUCCESS"
               THEN t.exc ELSE ""]

\* wait_for_task_completion after the loop: no attempt is left.
LoopEnd(c) ==
    IF c.attempt < MaxAttempts THEN c
    ELSE [c EXCEPT !.pc = "returned",
                   !.returned = [status |-> "TIMEOUT", result |-> NoProducts,
                                 error |-> "Task processing took too long"]]

\* wait_for_task_completion: one attempt whose request was answered.
wait_for_task_completion(c, status_data) ==
    LET n == [c EXCEPT !.pc = "polling", !.attempt = c.attempt + 1,
                       !.status_data = status_data,
                       !.seen = Append(c.seen, status_data.status)]
    IN  IF status_data.status \in {"SUCCESS", "FAILURE"}
        THEN [n EXCEPT !.pc = "returned", !.returned = status_data]
        ELSE IF status_data.status = "STARTED"
        THEN LoopEnd([n EXCEPT !.consecutive_errors = 0])
        ELSE LoopEnd(n)

\* wait_for_task_completion: one attempt whose request raised.
RequestException(c) ==
    LET n == [c EXCEPT !.attempt = c.attempt + 1,
                       !.consecutive_errors = c.consecutive_errors + 1]
    IN  IF n.consecutive_errors >= max_consecutive_errors
        THEN [n EXCEPT !.pc = "returned",
                       !.returned = [status |-> "FAILURE",
                                     result |-> NoProducts,
                                     error |-> "consecutive errors"]]
        ELSE LoopEnd(n)

\* POST /products/batch: delay() queues the task, or raises and the answer
\* is 500, which ends the client's batch.
SubmitBatch ==
    \E products \in Batches(MaxBatch), output_dir \in OutputDirs,
       delayOk \in BOOLEAN :
        /\ client.pc = "idle"
        /\ ai' = IF delayOk
                 THEN [NoTask EXCEPT !.pc = "queued", !.products = products,
                                     !.output_dir = output_dir]
                 ELSE ai
        /\ client' = [client EXCEPT !.pc = IF delayOk THEN "polling"
                                           ELSE "failed"]
        /\ UNCHANGED <<limiter, clock, calls, session, auth, req, bulkOps,
                       job, backend, cache, resp, db, hook>>

\* The worker takes the task: task_track_started records STARTED.
TaskStarts ==
    /\ ai.pc = "queued"
    /\ ai' = [ai EXCEPT !.pc = "running", !.status = "STARTED"]
    /\ UNCHANGED <<client, limiter, clock, calls, session, auth, req,
                   bulkOps, job, backend, cache, resp, db, hook>>

TaskRuns ==
    \E outcome \in ModelOutcomes, saveOk \in BOOLEAN :
        /\ ai.pc = "running"
        /\ ai' = batch_process_products_task(ai, outcome, saveOk)
        /\ UNCHANGED <<client, limiter, clock, calls, session, auth, req,
                       bulkOps, job, backend, cache, resp, db, hook>>

\* GET /tasks/{task_id} arrives: task_result.status is read.
StatusRequest ==
    /\ client.pc = "polling"
    /\ client' = [client EXCEPT !.pc = "waiting", !.status_read = ai.status]
    /\ UNCHANGED <<ai, limiter, clock, calls, session, auth, req, bulkOps,
                   job, backend, cache, resp, db, hook>>

\* GET /tasks/{task_id} answers and the client handles the answer.
StatusResponse ==
    /\ client.pc = "waiting"
    /\ client' = wait_for_task_completion(
                     client, get_task_status(client.status_read, ai))
    /\ UNCHANGED <<ai, limiter, clock, calls, session, auth, req, bulkOps,
                   job, backend, cache, resp, db, hook>>

\* The GET raises in the client: no connection, or an error status.
RequestFails ==
    /\ client.pc = "polling"
    /\ client' = RequestException(client)
    /\ UNCHANGED <<ai, limiter, clock, calls, session, auth, req, bulkOps,
                   job, backend, cache, resp, db, hook>>

(***************************************************************************)
(* Specifications.                                                         *)
(***************************************************************************)
NoJobs == [id \in {} |-> NewJob("none")]
NoBackend == [id \in {} |-> NewBackend]

InitTransport ==
    /\ req = NewRequest
    /\ bulkOps = <<>>
    /\ job = NoJobs
    /\ backend = NoBackend
    /\ cache = EmptyCache
    /\ resp = NoResp
    /\ db = InitDb
    /\ hook = NoHook
    /\ limiter = NewLimiter /\ clock = 0 /\ calls = <<>>
    /\ session = NoSession /\ auth = NoAuth
    /\ ai = NoTask /\ client = NoClient

NextTransport == HttpPost

SpecTransport == InitTransport /\ [][NextTransport]_vars

\* An operation another client of the store has running.
ForeignOp(type) ==
    [NullOp EXCEPT !.id = 1, !.type = type, !.owner = "other",
                   !.status = "RUNNING"]

PullTaskId == "t1"

InitPull ==
    /\ req = NewRequest
    /\ bulkOps \in {<<>>, <<ForeignOp("customers")>>}
    /\ \E r \in Resources : job = (PullTaskId :> NewJob(r))
    /\ backend = (PullTaskId :> NewBackend)
    /\ cache = EmptyCache
    /\ resp = NoResp
    /\ db = InitDb
    /\ hook = NoHook
    /\ limiter = NewLimiter /\ clock = 0 /\ calls = <<>>
    /\ session = NoSession /\ auth = NoAuth
    /\ ai = NoTask /\ client = NoClient

NextPull ==
    \/ \E id \in DOMAIN job : WorkerReceive(id)
    \/ \E id \in DOMAIN job : PullBegin(id)
    \/ \E id \in DOMAIN job : PullStart(id, TransportOutcomes, BOOLEAN)
    \/ \E id \in DOMAIN job : PullPoll(id, TransportOutcomes, BOOLEAN)
    \/ \E id \in DOMAIN job : PullFinish(id, GetOutcomes, BOOLEAN, AllFiles)
    \/ \E id \in DOMAIN job : TaskEnd(id)
    \/ RemoteAdvance(0..MaxLines)
    \/ Tick

SpecPull == InitPull /\ [][NextPull]_vars

\* The pull task with the data-pull endpoints being called; the poll loop is
\* explored up to MaxExploredPolls status queries.
NextApi ==
    \/ \E id \in DOMAIN job : WorkerReceive(id)
    \/ \E id \in DOMAIN job : PullBegin(id)
    \/ \E id \in DOMAIN job : PullStart(id, TransportOutcomes, BOOLEAN)
    \/ \E id \in DOMAIN job :
          /\ job[id].poll.attempts < MaxExploredPolls
          /\ PullPoll(id, TransportOutcomes, BOOLEAN)
    \/ \E id \in DOMAIN job : PullFinish(id, GetOutcomes, BOOLEAN, AllFiles)
    \/ \E id \in DOMAIN job : TaskEnd(id)
    \/ RemoteAdvance(0..MaxLines)
    \/ Tick
    \/ GetPullStatus
    \/ GetPullResults

SpecApi == InitPull /\ [][NextApi]_vars

ParentTaskId == "p1"

InitAll ==
    /\ req = NewRequest
    /\ bulkOps = <<>>
    /\ job = (ParentTaskId :> NewJob("all"))
    /\ backend = (ParentTaskId :> NewBackend)
    /\ cache = EmptyCache
    /\ resp = NoResp
    /\ db = InitDb
    /\ hook = NoHook
    /\ limiter = NewLimiter /\ clock = 0 /\ calls = <<>>
    /\ session = NoSession /\ auth = NoAuth
    /\ ai = NoTask /\ client = NoClient

\* The sibling pulls, each explored up to MaxExploredPolls status queries, with
\* a transport that gets through or runs out of retries, a platform that is
\* not throttling, operations of one record and result files of record lines.
SiblingOutcomes ==
    {o \in TransportOutcomes : o.ok \/ o.error.msg = "Max retries exceeded"}
SiblingFiles == UNION {[1..1 -> {LineText(t, 1)}] : t \in Resources}

NextAll ==
    \/ \E id \in DOMAIN job : WorkerReceive(id)
    \/ \E id \in DOMAIN job : PullAllStart(id)
    \/ \E id \in DOMAIN job : PullAll(id)
    \/ \E id \in DOMAIN job : PullBegin(id)
    \/ \E id \in DOMAIN job : PullStart(id, SiblingOutcomes, {FALSE})
    \/ \E id \in DOMAIN job :
          /\ job[id].poll.attempts < MaxExploredPolls
          /\ PullPoll(id, SiblingOutcomes, {FALSE})
    \/ \E id \in DOMAIN job : PullFinish(id, {"ok"}, {TRUE}, SiblingFiles)
    \/ \E id \in DOMAIN job : TaskEnd(id)
    \/ RemoteAdvance({1})

SpecAll == InitAll /\ [][NextAll]_vars

\* Two pull-all requests being scheduled; the sub-jobs are received by workers
\* and go no further.
OtherParentTaskId == "p2"

InitSchedule ==
    /\ req = NewRequest
    /\ bulkOps = <<>>
    /\ job = (ParentTaskId :> NewJob("all")) @@ (OtherParentTaskId :> NewJob("all"))
    /\ backend = (ParentTaskId :> NewBackend) @@ (OtherParentTaskId :> NewBackend)
    /\ cache = EmptyCache
    /\ resp = NoResp
    /\ db = InitDb
    /\ hook = NoHook
    /\ limiter = NewLimiter /\ clock = 0 /\ calls = <<>>
    /\ session = NoSession /\ auth = NoAuth
    /\ ai = NoTask /\ client = NoClient

NextSchedule ==
    \/ \E id \in DOMAIN job : WorkerReceive(id)
    \/ \E id \in DOMAIN job : PullAllStart(id)
    \/ \E id \in DOMAIN job : PullAll(id)
    \/ \E id \in DOMAIN job : ~IsPull(id) /\ TaskEnd(id)

SpecSchedule == InitSchedule /\ [][NextSchedule]_vars

\* pull_all_data, its sibling pulls up to the start of their operation, and
\* the status endpoint being called.
NextStatus ==
    \/ \E id \in DOMAIN job : WorkerReceive(id)
    \/ \E id \in DOMAIN job : PullAllStart(id)
    \/ \E id \in DOMAIN job : PullAll(id)
    \/ \E id \in DOMAIN job : PullBegin(id)
    \/ \E id \in DOMAIN job : PullStart(id, SiblingOutcomes, {FALSE})
    \/ \E id \in DOMAIN job : TaskEnd(id)
    \/ GetPullStatus

SpecStatus == InitAll /\ [][NextStatus]_vars

\* The three pull tasks side by side, fed the same remote responses: one
\* start response for all, then each status response and the result file to
\* every task that has got that far.  The result file is served to each task
\* with the records of its own resource type.
SameIds == {SubtaskId(PullTaskId, r) : r \in Resources}

InitSame ==
    /\ req = NewRequest
    /\ bulkOps = <<>>
    /\ job = [id \in SameIds |-> NewJob(ResourceOfSubtask(PullTaskId, id))]
    /\ backend = [id \in SameIds |-> NewBackend]
    /\ cache = EmptyCache
    /\ resp = NoResp
    /\ db = InitDb
    /\ hook = NoHook
    /\ limiter = NewLimiter /\ clock = 0 /\ calls = <<>>
    /\ session = NoSession /\ auth = NoAuth
    /\ ai = NoTask /\ client = NoClient

StartBodies == {"ok", "userErrors", "nodata"}
StatusBodies ==
    {NoDataBody, [shape |-> "null", op |-> NullOp]}
    \cup {[shape |-> "op", op |-> o] :
            o \in {ForeignOp("customers")}
                  \cup Completions(ForeignOp("customers"), {1})}

FileFor(resource, file) ==
    [i \in DOMAIN file |->
        IF \E n \in RecordIds : file[i] = LineText("customers", n)
        THEN LineText(resource,
                      CHOOSE n \in RecordIds : file[i] = LineText("customers", n))
        ELSE file[i]]

SameStart ==
    /\ \A id \in DOMAIN job : job[id].pc = "start"
    /\ \E out \in TransportOutcomes, body \in StartBodies :
         LET w == [id \in DOMAIN job |->
                      PullStartStep(World(id), out,
                                    IF out.ok THEN body ELSE "nodata",
                                    IF out.ok /\ body = "ok" THEN 1 ELSE 0)]
         IN /\ job' = [id \in DOMAIN job |-> w[id].j]
            /\ backend' = [id \in DOMAIN job |-> w[id].b]
    /\ UNCHANGED <<ai, client, limiter, clock, calls, session, auth, req, bulkOps, cache, resp, db, hook>>

SamePoll ==
    /\ \E id \in DOMAIN job : job[id].pc = "poll"
    /\ \A id \in DOMAIN job : job[id].poll.attempts < MaxExploredPolls
    /\ \E out \in TransportOutcomes, body \in StatusBodies :
         LET w == [id \in DOMAIN job |->
                      IF job[id].pc = "poll"
                      THEN PullPollStep(World(id), out, body)
                      ELSE World(id)]
         IN /\ job' = [id \in DOMAIN job |-> w[id].j]
            /\ backend' = [id \in DOMAIN job |-> w[id].b]
    /\ UNCHANGED <<ai, client, limiter, clock, calls, session, auth, req, bulkOps, cache, resp, db, hook>>

SameFinish ==
    /\ \E id \in DOMAIN job : job[id].pc = "download"
    /\ \E get \in GetOutcomes, setOk \in BOOLEAN, file \in FilesOf("customers") :
         LET w == [id \in DOMAIN job |->
                      IF job[id].pc = "download"
                      THEN PullFinishStep(World(id), id, get,
                                          FileFor(job[id].resource, file), setOk)
                      ELSE World(id)]
             writers == {id \in DOMAIN job : w[id].j.wrote # job[id].wrote}
         IN /\ job' = [id \in DOMAIN job |-> w[id].j]
            /\ backend' = [id \in DOMAIN job |-> w[id].b]
            /\ cache' = [k \in {w[id].j.wrote.key : id \in writers} |->
                            LET id == CHOOSE i \in writers : w[i].j.wrote.key = k
                            IN [value |-> w[id].j.wrote.value,
                                ex |-> w[id].j.wrote.ex, age |-> 0]] @@ cache
    /\ UNCHANGED <<ai, client, limiter, clock, calls, session, auth, req, bulkOps, resp, db, hook>>

NextSame ==
    \/ \E id \in DOMAIN job : WorkerReceive(id)
    \/ \E id \in DOMAIN job : PullBegin(id)
    \/ SameStart
    \/ SamePoll
    \/ SameFinish
    \/ \E id \in DOMAIN job : TaskEnd(id)

SpecSame == InitSame /\ [][NextSame]_vars

InitWebhook ==
    /\ req = NewRequest
    /\ bulkOps = <<>>
    /\ job = NoJobs
    /\ backend = NoBackend
    /\ cache = EmptyCache
    /\ resp = NoResp
    /\ db = InitDb
    /\ hook = NoHook
    /\ limiter = NewLimiter /\ clock = 0 /\ calls = <<>>
    /\ session = NoSession /\ auth = NoAuth
    /\ ai = NoTask /\ client = NoClient

NextWebhook ==
    \/ WebhookArrives
    \/ ReceiveWebhook

SpecWebhook == InitWebhook /\ [][NextWebhook]_vars

\* The trigger endpoints, the coordinator they start and the status endpoint.
InitTrigger ==
    /\ req = NewRequest
    /\ bulkOps = <<>>
    /\ job = NoJobs
    /\ backend = NoBackend
    /\ cache = EmptyCache
    /\ resp = NoResp
    /\ db = InitDb
    /\ hook = NoHook
    /\ limiter = NewLimiter /\ clock = 0 /\ calls = <<>>
    /\ session = NoSession /\ auth = NoAuth
    /\ ai = NoTask /\ client = NoClient

NextTrigger ==
    \/ StartDataPull
    \/ StartResourcePull
    \/ \E id \in DOMAIN job : WorkerReceive(id)
    \/ \E id \in DOMAIN job : PullAllStart(id)
    \/ \E id \in DOMAIN job : PullAll(id)
    \/ \E id \in DOMAIN job : ~IsPull(id) /\ TaskEnd(id)
    \/ GetPullStatus

SpecTrigger == InitTrigger /\ [][NextTrigger]_vars

\* Pulls of several stores and jobs writing to one cache.
InitKeys ==
    /\ req = NewRequest
    /\ bulkOps = <<>>
    /\ job = [t \in {} |-> NewJob("none")]
    /\ backend = NoBackend
    /\ cache = EmptyCache
    /\ resp = NoResp
    /\ db = InitDb
    /\ hook = NoHook
    /\ limiter = NewLimiter /\ clock = 0 /\ calls = <<>>
    /\ session = NoSession /\ auth = NoAuth
    /\ ai = NoTask /\ client = NoClient

NextKeys == KeyedPull

SpecKeys == InitKeys /\ [][NextKeys]_vars

\* The web-pixel event endpoint under one process's rate limiter.
InitLimiter ==
    /\ req = NewRequest
    /\ bulkOps = <<>>
    /\ job = NoJobs
    /\ backend = NoBackend
    /\ cache = EmptyCache
    /\ resp = NoResp
    /\ db = InitDb
    /\ hook = NoHook
    /\ limiter = NewLimiter /\ clock = 0 /\ calls = <<>>
    /\ session = NoSession /\ auth = NoAuth
    /\ ai = NoTask /\ client = NoClient

NextLimiter ==
    \/ WebPixelEvent
    \/ ClockAdvance

SpecLimiter == InitLimiter /\ [][NextLimiter]_vars

\* The OAuth install flow of one browser session.
InitAuth ==
    /\ req = NewRequest
    /\ bulkOps = <<>>
    /\ job = NoJobs
    /\ backend = NoBackend
    /\ cache = EmptyCache
    /\ resp = NoResp
    /\ db = InitDb
    /\ hook = NoHook
    /\ limiter = NewLimiter /\ clock = 0 /\ calls = <<>>
    /\ session = NoSession /\ auth = NoAuth
    /\ ai = NoTask /\ client = NoClient

NextAuth ==
    \/ Connect
    \/ Callback

SpecAuth == InitAuth /\ [][NextAuth]_vars

\* One batch AI task, its worker and its polling client.
InitBatch ==
    /\ req = NewRequest
    /\ bulkOps = <<>>
    /\ job = NoJobs
    /\ backend = NoBackend
    /\ cache = EmptyCache
    /\ resp = NoResp
    /\ db = InitDb
    /\ hook = NoHook
    /\ limiter = NewLimiter /\ clock = 0 /\ calls = <<>>
    /\ session = NoSession /\ auth = NoAuth
    /\ ai = NoTask /\ client = NoClient

NextBatch ==
    \/ SubmitBatch
    \/ TaskStarts
    \/ TaskRuns
    \/ StatusRequest
    \/ StatusResponse
    \/ RequestFails

SpecBatch == InitBatch /\ [][NextBatch]_vars

Spec == SpecPull

(***************************************************************************)
(* Claims.                                                                 *)
(***************************************************************************)
Ended(id) == job[id].pc \in {"returned", "done"}
PullIds == {id \in DOMAIN job : IsPull(id)}
All429(seen) == \A i \in DOMAIN seen : seen[i].kind = "http" /\ seen[i].status = 429

\* C1: a pull whose start response carried non-empty userErrors returns
\* success = false and has issued no status poll.
C1_UserErrorsFailWithoutPoll ==
    \A id \in PullIds :
        job[id].sawUserErrors =>
            /\ job[id].poll.attempts = 0
            /\ Ended(id)
            /\ job[id].ret.success = FALSE

\* C2: a sibling pull that returned success stored, under its own key, the
\* records of an operation it started itself for its own resource type.
C2_SiblingsStoreOwnData ==
    \A id \in PullIds :
        (Ended(id) /\ job[id].wrote # NoWrite) =>
            /\ job[id].wrote.key = RedisKey(job[id].resource, Shop, id)
            /\ job[id].poll.op.id = job[id].started
            /\ job[id].poll.op.owner = id
            /\ job[id].poll.op.type = job[id].resource
            /\ \A i \in DOMAIN job[id].data :
                 \E n \in RecordIds : job[id].data[i] = RecordOf(job[id].resource, n)

\* C3: a results request (S, J, data_type = R) answers 200 with exactly the
\* stored record list while the entry the pull of R for S with id J stored is
\* alive, and 404 when nothing is stored or the entry has expired.
C3_ResultsRoundTrip ==
    [][(resp' # resp /\ resp'.endpoint = "results") =>
         LET a == resp'.args
             stored == RedisGet(cache, RedisKey(a.data_type, a.shop, a.task_id))
         IN IF stored.found
            THEN /\ resp'.status = 200
                 /\ JsonDumps(resp'.body.data) = stored.value
            ELSE resp'.status = 404]_vars

\* C4: the poll loop issues at most max_attempts status queries, each
\* non-terminal answer followed by one sleep, every iteration either ends the
\* call or uses up one attempt, and the call that saw max_attempts non-terminal
\* answers raises TimeoutError, which reports no operation and is returned by
\* the task as the timeout message, not as a failed operation.
C4_PollState(id) ==
    LET p == job[id].poll
    IN /\ p.attempts <= max_attempts
       /\ p.pc = "polling" => p.sleeps = p.attempts
       /\ p.error.kind = "TimeoutError" =>
            /\ p.pc = "raised"
            /\ p.attempts = max_attempts
            /\ p.sleeps = max_attempts
            /\ p.op = NullOp
            /\ job[id].ret.success = FALSE
            /\ job[id].ret.error = "Bulk operation polling timed out"

C4_PollStep(id) ==
    LET p == job[id].poll
        q == job'[id].poll
    IN (p.pc = "polling" /\ q # p) =>
         /\ q.pc # "polling" \/ q.attempts = p.attempts + 1
         /\ (p.attempts = max_attempts) => q.error.kind = "TimeoutError"

C4_PollTerminatesWithTimeout ==
    /\ [](\A id \in PullIds : C4_PollState(id))
    /\ [][\A id \in PullIds : C4_PollStep(id)]_vars

C4_Witness ==
    \E id \in PullIds :
        /\ job[id].poll.error.kind = "TimeoutError"
        /\ job[id].poll.attempts = max_attempts
        /\ job[id].pc = "done"

LifecycleMove(a, b) ==
    \/ a = b
    \/ a = "PENDING" /\ b = "STARTED"
    \/ a = "STARTED" /\ b \in {"SUCCESS", "FAILURE"}

C6_LifecycleMonotonic ==
    [][\A id \in DOMAIN backend :
          /\ LifecycleMove(backend[id].state, backend'[id].state)
          /\ get_pull_status(backend, id).body.status = "failed" =>
                get_pull_status(backend', id).body.status # "completed"]_vars

\* C7: a pull that polled a COMPLETED operation, was served its result file of
\* N well-formed lines and wrote the cache, returned success with count N and
\* stored those N records in file order with a 3600-second expiry.
WellFormed(file) ==
    \A i \in DOMAIN NonBlank(file) : JsonLoadsLine(NonBlank(file)[i]).ok

RecordsOfFile(file) ==
    [i \in DOMAIN NonBlank(file) |-> JsonLoadsLine(NonBlank(file)[i]).value]

Served(id) ==
    /\ Ended(id)
    /\ job[id].poll.pc = "returned"
    /\ job[id].poll.op.status = "COMPLETED"
    /\ job[id].error.kind \notin {"RequestException", "RedisError"}

C7_CompletedPullStoresFile ==
    \A id \in PullIds :
        (Served(id) /\ WellFormed(job[id].file)) =>
            LET n == Len(NonBlank(job[id].file))
                key == RedisKey(job[id].resource, Shop, id)
            IN /\ job[id].ret.success = TRUE
               /\ job[id].ret.count = n
               /\ job[id].wrote = [key |-> key,
                                   value |-> JsonDumps(RecordsOfFile(job[id].file)),
                                   ex |-> 3600]
               /\ key \in DOMAIN cache
               /\ cache[key].value = JsonDumps(RecordsOfFile(job[id].file))
               /\ cache[key].ex = 3600

C7_Witness ==
    \E id \in PullIds :
        /\ Served(id)
        /\ job[id].file = <<LineText(job[id].resource, 2),
                            LineText(job[id].resource, 1)>>
        /\ job[id].ret.count = 2

\* C8: a pull whose own operation COMPLETED with objectCount = 0, with a url
\* serving an empty file or with no url, returns success with count 0 and
\* stores the empty list (the download and the cache write not failing for a
\* reason of their own).
C8_EmptyResultSucceeds ==
    \A id \in PullIds :
        ( /\ Ended(id)
          /\ job[id].poll.pc = "returned"
          /\ job[id].poll.op.status = "COMPLETED"
          /\ job[id].poll.op.id = job[id].started
          /\ job[id].poll.op.objectCount = 0
          /\ job[id].error.msg \notin
                {"connection failed", "HTTPError", "Timeout writing to socket"} )
        => /\ job[id].ret.success = TRUE
           /\ job[id].ret.count = 0
           /\ job[id].wrote.value = "[]"

\* C9: while attempts remain a 429 does not end the call: after fewer than
\* max_retries responses, all 429, the call is still running; a 200 after
\* them is returned without error; only max_retries 429s make it raise.
C9_RateLimitRetried ==
    /\ (All429(req.seen) /\ Len(req.seen) < max_retries) => req.pc = "loop"
    /\ (req.seen # <<>> /\ req.seen[Len(req.seen)].status = 200
        /\ All429(SubSeq(req.seen, 1, Len(req.seen) - 1)))
       => (req.pc = "returned" /\ req.error = NoError)
    /\ (All429(req.seen) /\ req.pc = "raised") => Len(req.seen) = max_retries

\* C10: one call issues at most max_retries POSTs, whatever the responses and
\* network failures, and after the last one it has returned a 200 body or
\* raised; every response and every failure costs one attempt.
C10_AtMostThreePosts ==
    /\ req.posts <= max_retries
    /\ req.posts = Len(req.seen)
    /\ req.pc = "loop" => req.attempt = req.posts /\ req.posts < max_retries
    /\ req.pc = "returned" =>
         /\ req.seen[Len(req.seen)].status = 200
         /\ req.error = NoError
    /\ req.pc = "raised" => req.error # NoError
    /\ req.posts = max_retries => req.pc \in {"returned", "raised"}

C10_Witness ==
    /\ req.pc = "raised"
    /\ req.posts = max_retries
    /\ req.seen[1].status = 429
    /\ req.seen[2].kind = "neterr"
    /\ req.seen[3].status = 429

ParentIds == {id \in DOMAIN job : ~IsPull(id)}
ReturnedSubtasks(p) == {job[p].ret.subtasks[r] : r \in Resources}

\* C11: a pull_all_data with id P that scheduled its sub-jobs and returned
\* success added exactly three jobs, one per resource type, under the ids
\* P-customers, P-products and P-orders, and returned exactly those ids; the
\* sub-job ids of two different parents are disjoint.
C11_Scheduled(p) ==
    (Ended(p) /\ job[p].ret.success) =>
        /\ \A r \in Resources :
              /\ job[p].ret.subtasks[r] = p \o "-" \o r
              /\ job[p].ret.subtasks[r] \in DOMAIN job
              /\ job[job[p].ret.subtasks[r]].resource = r
        /\ Cardinality(ReturnedSubtasks(p)) = 3
        /\ job[p].ret.task_id = p
        /\ \A q \in ParentIds \ {p} :
              (Ended(q) /\ job[q].ret.success) =>
                  ReturnedSubtasks(p) \cap ReturnedSubtasks(q) = {}

C11_ScheduleStep(p) ==
    (job[p].pc = "start" /\ job'[p].pc = "returned" /\ job'[p].ret.success) =>
        /\ DOMAIN job' \ DOMAIN job = {job'[p].ret.subtasks[r] : r \in Resources}
        /\ Cardinality(DOMAIN job' \ DOMAIN job) = 3
        /\ \A id \in DOMAIN job : id # p => job'[id] = job[id]

StatusWord(state) ==
    IF state = "PENDING" THEN "pending"
    ELSE IF state = "STARTED" THEN "in_progress"
    ELSE IF state = "SUCCESS" THEN "completed"
    ELSE "failed"

C12_ParentCanMove(p) ==
    /\ job[p].pc = "queued" => ENABLED WorkerReceive(p)
    /\ job[p].pc = "begin" => ENABLED PullAllStart(p)
    /\ job[p].pc = "start" => ENABLED PullAll(p)
    /\ job[p].pc = "returned" => ENABLED TaskEnd(p)

C12_Independent ==
    /\ \A p \in ParentIds, s \in PullIds :
          (job'[p] # job[p] \/ backend'[p] # backend[p]) =>
              (job'[s] = job[s] /\ backend'[s] = backend[s])
    /\ (resp' # resp /\ resp'.endpoint = "status") =>
          /\ resp'.status = 200
          /\ resp'.body.status = StatusWord(backend[resp'.args.task_id].state)

C12_NoJoin ==
    /\ [](\A p \in ParentIds : C12_ParentCanMove(p))
    /\ [][C12_Independent]_vars

C12_Witness ==
    /\ backend[ParentTaskId].state = "SUCCESS"
    /\ job[ParentTaskId].ret.success
    /\ backend[SubtaskId(ParentTaskId, "customers")].state = "PENDING"
    /\ backend[SubtaskId(ParentTaskId, "products")].state = "STARTED"
    /\ job[SubtaskId(ParentTaskId, "orders")].pc = "done"
    /\ job[SubtaskId(ParentTaskId, "orders")].ret.success = FALSE
    /\ resp.endpoint = "status"
    /\ resp.args.task_id = SubtaskId(ParentTaskId, "products")
    /\ resp.body.status = "in_progress"

\* C13: a pull whose poll returned a FAILED or CANCELED operation returns the
\* failure result whose error is the operation-failed message ending in the
\* errorCode the remote reported (None when it reported none), the same for
\* CANCELED as for FAILED, and downloads no file and writes no cache entry.
C13_FailedOperationSurfaced ==
    \A id \in PullIds :
        (job[id].poll.pc = "returned"
         /\ job[id].poll.op.status \in {"FAILED", "CANCELED"}) =>
            /\ Ended(id)
            /\ job[id].ret.success = FALSE
            /\ job[id].ret.error = "Bulk operation for " \o job[id].resource
                                   \o " failed: " \o job[id].poll.op.errorCode
            /\ job[id].file = <<>>
            /\ job[id].data = <<>>
            /\ job[id].wrote = NoWrite
            /\ RedisKey(job[id].resource, Shop, id) \notin DOMAIN cache

C13_Witness ==
    \E id \in PullIds :
        /\ job[id].pc = "done"
        /\ job[id].poll.op.status = "FAILED"
        /\ job[id].poll.op.errorCode = "ACCESS_DENIED"
        /\ job[id].ret.error = "Bulk operation for " \o job[id].resource
                               \o " failed: ACCESS_DENIED"

\* C14: the poll returns exactly when a status response shows COMPLETED,
\* FAILED or CANCELED: a call that goes on polling has just seen a
\* non-terminal status, a call that returns hands back the operation the
\* response showed, a returned call issues no further query, and the
\* operation returned is never CREATED or RUNNING.
C14_PollMove(id) ==
    LET p == job[id].poll
        q == job'[id].poll
        seen == CurrentBulkOperation(bulkOps)
    IN /\ (p.pc = "polling" /\ q # p /\ q.pc = "polling") =>
            /\ seen.shape = "op"
            /\ seen.op.status \in ActiveStatuses
       /\ (p.pc = "polling" /\ q.pc = "returned") =>
            /\ seen.shape = "op"
            /\ seen.op.status \in TerminalStatuses
            /\ q.op = seen.op
       /\ p.pc = "returned" => q = p

C14_ReturnsFirstTerminal ==
    /\ [](\A id \in PullIds :
            job[id].poll.pc = "returned" =>
                job[id].poll.op.status \in TerminalStatuses)
    /\ [][\A id \in PullIds : C14_PollMove(id)]_vars

C14_Witness ==
    \E id \in PullIds :
        /\ job[id].pc = "download"
        /\ job[id].poll.pc = "returned"
        /\ job[id].poll.op.id = job[id].started
        /\ job[id].poll.op.status = "COMPLETED"
        /\ job[id].poll.op.objectCount = MaxLines

\* C15: fed the same start response, status responses and result file, the
\* three pull tasks agree on whether polling is entered, whether the task has
\* ended, the success flag, the count and whether a cache entry is written.
Outcome(id) ==
    [polling |-> job[id].pc = "poll" \/ job[id].poll # NewPoll,
     ended |-> Ended(id),
     success |-> Ended(id) /\ job[id].ret.success,
     count |-> IF Ended(id) /\ job[id].ret.success THEN job[id].ret.count ELSE 0,
     cached |-> job[id].wrote # NoWrite]

C15_SameWorkflow ==
    (\A id \in PullIds : job[id].pc \notin {"queued", "begin"}) =>
        \A a, b \in PullIds : Outcome(a) = Outcome(b)

\* C16: every phase transition of a pull on its way to success (submitted to
\* polling, polling to downloading, downloading to done) changes what the
\* status endpoint reports for the job.
PhaseMoves ==
    {<<"start", "poll">>, <<"poll", "download">>, <<"download", "returned">>}

C16_ProgressPublished ==
    [][\A id \in PullIds :
          (<<job[id].pc, job'[id].pc>> \in PhaseMoves /\ job'[id].error = NoError) =>
              get_pull_status(backend', id) # get_pull_status(backend, id)]_vars

HeadersMissing(r) ==
    r.topic = MissingHeader \/ r.hmac = MissingHmac \/ r.shop = MissingHeader

\* C17: receive_webhook answers 400 to a request missing a required header,
\* 401 to one whose HMAC does not verify, and 200 to every other request of
\* the topics customers/data_request, customers/redact and shop/redact,
\* whatever the payload and whatever the database does.
C17_WebhookStatus ==
    [][(hook.pc = "received" /\ hook'.pc = "answered") =>
         LET r == hook.request
         IN IF HeadersMissing(r) THEN hook'.status = 400
            ELSE IF ~verify_shopify_webhook_hmac(r.body, WebhookSecret, r.hmac)
            THEN hook'.status = 401
            ELSE r.topic \in HandledTopics => hook'.status = 200]_vars

\* C18: a webhook request whose HMAC is not the HMAC of its body under the
\* secret is answered 401 with no JSON parsing, no topic handler and no
\* database statement, and leaves the database as it was, whatever its topic
\* and payload.
C18_UnverifiedNotProcessed ==
    [][(hook.pc = "received" /\ hook'.pc = "answered"
        /\ ~HeadersMissing(hook.request)
        /\ hook.request.hmac # Hmac(WebhookSecret, hook.request.body)) =>
         /\ hook'.status = 401
         /\ ~hook'.verified
         /\ ~hook'.parsed
         /\ hook'.handler = "none"
         /\ hook'.reads = 0
         /\ hook'.writes = 0
         /\ db' = db]_vars

C18_Witness ==
    /\ hook.pc = "answered"
    /\ hook.request.topic = "customers/redact"
    /\ hook.status = 401
    /\ ~hook.parsed
    /\ hook.reads = 0
    /\ db = InitDb

\* C19: a request to a single-resource trigger endpoint is answered 200 with
\* status started and a task id, and has enqueued exactly one job, of that
\* resource type, under that id.
C19_TriggerEnqueuesOne ==
    [][(resp' # resp /\ resp'.endpoint = "start"
        /\ resp'.args.data_type \in Resources) =>
         /\ resp'.status = 200
         /\ resp'.body.status = "started"
         /\ resp'.body.shop = resp'.args.shop
         /\ DOMAIN job' \ DOMAIN job = {resp'.body.task_id}
         /\ job'[resp'.body.task_id] = NewJob(resp'.args.data_type)
         /\ backend'[resp'.body.task_id].state = "PENDING"]_vars

\* C20: a response whose status is neither 200 nor 429 is the last of the
\* call, which raises an error whose text is the status code and the response
\* body; a 200 response is returned as its parsed body, with no error, also
\* when the body has a top-level errors array.
C20_OtherStatusRaisesAtOnce ==
    /\ \A i \in DOMAIN req.seen :
          (req.seen[i].kind = "http" /\ req.seen[i].status \notin {200, 429}) =>
              /\ i = Len(req.seen)
              /\ req.posts = i
              /\ req.pc = "raised"
              /\ req.error.kind = "Exception"
              /\ req.error.msg = "Shopify API returned status code "
                                 \o ToString(req.seen[i].status) \o ": "
                                 \o req.seen[i].text
    /\ \A i \in DOMAIN req.seen :
          (req.seen[i].kind = "http" /\ req.seen[i].status = 200) =>
              /\ i = Len(req.seen)
              /\ req.pc = "returned"
              /\ req.error = NoError
              /\ req.result.keys =
                    IF req.seen[i].text = ErrorsText THEN {"errors"} ELSE {"data"}

C20_Witness ==
    /\ Len(req.seen) = 2
    /\ req.seen[1].kind = "neterr"
    /\ req.seen[2].status = 500
    /\ req.pc = "raised"
    /\ req.posts = 2

\* C21: the cache key is injective in (resource type, store, job id): two
\* pulls that differ in any of the three wrote different keys, and every
\* pull's value is still the one stored under its key.
C21_KeysInjective ==
    /\ \A t, u \in DOMAIN job :
         (t # u /\ job[t].wrote # NoWrite /\ job[u].wrote # NoWrite)
            => job[t].wrote.key # job[u].wrote.key
    /\ \A t \in DOMAIN job :
         job[t].wrote # NoWrite
            => /\ job[t].wrote.key \in DOMAIN cache
               /\ cache[job[t].wrote.key].value = job[t].wrote.value
    /\ \A k \in DOMAIN cache : \E t \in DOMAIN job : job[t].wrote.key = k

\* Two pulls of one store and one resource, and two pulls of one job id in
\* two stores, each with its own result in the cache.
C21_Witness ==
    /\ \E t, u \in DOMAIN job :
         /\ t[1] = u[1] /\ t[2] = u[2] /\ t[3] # u[3]
         /\ job[t].wrote # NoWrite /\ job[u].wrote # NoWrite
         /\ job[t].wrote.value # job[u].wrote.value
    /\ \E t, u \in DOMAIN job :
         /\ t[1] = u[1] /\ t[2] = "s1" /\ u[2] = "s1:p1" /\ t[3] = u[3]
         /\ job[t].wrote # NoWrite /\ job[u].wrote # NoWrite

\* C22: for every body, the empty one and one with null bytes included, the
\* HMAC check of a request passes exactly when the received value is the
\* HMAC of that body under the configured secret.
C22_HmacAcceptsExactlyGenuine ==
    [][(hook.pc = "received" /\ hook'.pc = "answered"
        /\ ~HeadersMissing(hook.request)) =>
         (hook'.verified
            <=> hook.request.hmac = Hmac(WebhookSecret, hook.request.body))]_vars

AllowedIn(a, n, lo, hi) ==
    {i \in 1..n : /\ calls[i].identifier = a
                  /\ calls[i].allowed
                  /\ lo < calls[i].time
                  /\ calls[i].time <= hi}

\* C24: with limit L and period T fixed, at most L allowed calls of one
\* identifier fall in any window (t - T, t], and a call at time now is allowed
\* exactly when fewer than L earlier allowed calls of its identifier have a
\* timestamp later than now - T.
C24_SlidingWindow ==
    /\ \A a \in Accounts, t \in 0..MaxClock :
         Cardinality(AllowedIn(a, Len(calls), t - PeriodSeconds, t))
            <= Limit
    /\ \A i \in DOMAIN calls :
         calls[i].allowed <=>
            Cardinality(AllowedIn(calls[i].identifier, i - 1,
                                  calls[i].time - PeriodSeconds,
                                  calls[i].time)) < Limit

\* An account refused at its limit and allowed again once its oldest allowed
\* call is exactly one period old.
C24_Witness ==
    \E i, j \in DOMAIN calls :
        /\ i < j
        /\ calls[i].identifier = calls[j].identifier
        /\ ~calls[i].allowed
        /\ calls[j].allowed
        /\ \E k \in 1..(i - 1) :
              /\ calls[k].identifier = calls[i].identifier
              /\ calls[k].allowed
              /\ calls[k].time = calls[j].time - PeriodSeconds

IsSuffix(s, t) == \E k \in 0..Len(t) : s = SubSeq(t, k + 1, Len(t))
TimestampsOf(lim, a) == IF a \in DOMAIN lim THEN lim[a] ELSE <<>>

\* C28: a refused is_allowed call records no timestamp (the identifier's
\* deque only loses expired entries, so the answers to its later calls are
\* what they would have been without it), and a call for one identifier
\* leaves the timestamps of every other identifier as they were.
C28_DeniedRecordsNothing ==
    [][Len(calls') = Len(calls) + 1 =>
         LET c == calls'[Len(calls')]
             a == c.identifier
         IN /\ \A b \in Accounts \ {a} :
                 /\ b \in DOMAIN limiter' <=> b \in DOMAIN limiter
                 /\ TimestampsOf(limiter', b) = TimestampsOf(limiter, b)
            /\ ~c.allowed =>
                 /\ IsSuffix(TimestampsOf(limiter', a), TimestampsOf(limiter, a))
                 /\ \A t \in clock..(MaxClock + PeriodSeconds) :
                      is_allowed(limiter', a, Limit, PeriodSeconds, t).allowed
                        = is_allowed(limiter, a, Limit, PeriodSeconds, t).allowed]_vars

\* An account refused while the other account, called before it, holds its
\* own timestamp.
C28_Witness ==
    \E i \in DOMAIN calls :
        /\ ~calls[i].allowed
        /\ \E k \in 1..(i - 1) :
              /\ calls[k].identifier # calls[i].identifier
              /\ calls[k].allowed
              /\ limiter[calls[k].identifier] = <<calls[k].time>>

\* C25: after an authenticated shop/redact webhook for a shop of the
\* database was processed (the database answering every statement), no event
\* and no extension of the shop remains, its access_token is cleared and
\* is_installed is false, and the rows of every other shop are unchanged.
C25_ShopRedactClearsShop ==
    [][(/\ hook.pc = "received" /\ hook'.pc = "answered"
        /\ hook'.verified
        /\ hook'.handler = "shop/redact"
        /\ hook'.status = 200
        /\ hook.request.fail = "none"
        /\ hook.request.shop \in DOMAIN db.shops) =>
         LET s == hook.request.shop
             sid == db.shops[s].id
         IN /\ \A e \in db'.events : e.shop_id # sid
            /\ \A x \in db'.extensions : x.shop_id # sid
            /\ db'.shops[s].access_token = NullToken
            /\ db'.shops[s].is_installed = FALSE
            /\ {e \in db'.events : e.shop_id # sid} = {e \in db.events : e.shop_id # sid}
            /\ {x \in db'.extensions : x.shop_id # sid}
                 = {x \in db.extensions : x.shop_id # sid}
            /\ \A o \in DOMAIN db.shops \ {s} : db'.shops[o] = db.shops[o]]_vars

\* C27: a customers/redact webhook for shop S and customer C deletes exactly
\* the events of S whose payload names C at customer.id or at
\* cart.buyerIdentity.customer.id; no other event, no extension and no shop
\* row changes; and nothing is deleted when the customer id is missing, the
\* shop is unknown or the database fails.
C27_RedactDeletesExactly ==
    [][(hook.pc = "received" /\ hook'.pc = "answered"
        /\ hook.request.topic = "customers/redact"
        /\ hook'.verified) =>
         LET r == hook.request
             named == r.body.kind = "dict" /\ r.body.customer = "dict" /\ r.body.id # 0
         IN /\ db'.shops = db.shops
            /\ db'.extensions = db.extensions
            /\ IF named /\ r.shop \in DOMAIN db.shops /\ r.fail = "none"
               THEN db'.events =
                      {e \in db.events :
                         ~(/\ e.shop_id = db.shops[r.shop].id
                           /\ (e.customer = r.body.id \/ e.cart_customer = r.body.id))}
               ELSE db'.events = db.events]_vars

\* Customer 1 of shop 1 redacted: the events naming it at either place are
\* gone, the event of customer 2 and the event of shop 2's customer 1 remain.
C27_Witness ==
    /\ hook.pc = "answered"
    /\ hook.request.topic = "customers/redact"
    /\ hook.handler = "customers/redact"
    /\ db.events = {EventRow(3, 1, 2, 0), EventRow(4, 2, 1, 0)}

\* C29: scheduling in pull_all_data is all-or-nothing: a pull_all_data that
\* returned a failure result has enqueued none of its three sub-jobs.
C29_AllOrNothing ==
    \A p \in ParentIds :
        (Ended(p) /\ ~job[p].ret.success) =>
            \A r \in Resources : SubtaskId(p, r) \notin DOMAIN job

\* The callback exchanged the code or changed the shops table only with a
\* verified HMAC and the state and shop /connect saved in the session.
C26_OnlyWhenMatching ==
    (auth'.endpoint = "callback" /\ (auth'.exchanged \/ db'.shops # db.shops)) =>
        /\ auth'.verified
        /\ session.state # ""
        /\ session.state = auth'.state
        /\ session.shop = auth'.shop

\* A callback that passed the HMAC check left no state in the session.
C26_StateRemoved ==
    (auth'.endpoint = "callback" /\ auth'.verified) => session' = NoSession

\* No issued state has more than one stored token.
C26_OneTokenPerState ==
    \A i, j \in DOMAIN auth.stored :
        auth.stored[i].state = auth.stored[j].state => i = j

\* C26: over any sequence of /connect and /callback requests of one session,
\* the callback exchanges the code and stores a token only when the query
\* HMAC verifies and state and shop equal those saved by /connect; the first
\* callback that passes the HMAC check removes the saved state, matching or
\* not; and one issued state leads to at most one stored token.
C26_StateSingleUse ==
    /\ [][C26_OnlyWhenMatching]_vars
    /\ [][C26_StateRemoved]_vars
    /\ []C26_OneTokenPerState

\* The results rs hold one result per submitted product, in submission order.
OnePerProduct(rs) ==
    /\ Len(rs) = Len(ai.products)
    /\ \A i \in 1..Len(rs) : rs[i].of = ai.products[i]

\* The answer to a poll of a successfully finished task.
SuccessData ==
    [status |-> "SUCCESS",
     result |-> [present |-> TRUE, products |-> ai.result],
     error |-> ""]

\* An answer with status SUCCESS carries {products: [r1..rn]}, one result
\* per submitted product in submission order, and no error.
C30_SuccessListsEveryProduct ==
    /\ ai.status = "SUCCESS" => ai.products # <<>> /\ OnePerProduct(ai.result)
    /\ client.status_data.status = "SUCCESS" => client.status_data = SuccessData

\* A result is present only when the task succeeded, an error only when it
\* finished unsuccessfully.
C30_ResultOnlyOnSuccess ==
    /\ client.status_data.result.present => ai.status = "SUCCESS"
    /\ client.status_data.error # "" =>
           ai.status \in READY_STATES \ {"SUCCESS"}

\* A poll that arrives once the task has finished successfully reads SUCCESS
\* and is answered with SUCCESS and the result.
C30_FinishedReportsSuccess ==
    [][/\ (client.pc = "polling" /\ client'.pc = "waiting"
           /\ ai.status = "SUCCESS")
          => client'.status_read = "SUCCESS"
       /\ (client.pc = "waiting" /\ client.status_read = "SUCCESS")
          => (client'.status_data = SuccessData /\ client'.pc = "returned")
      ]_vars

\* The client polls no more after an answer of SUCCESS or FAILURE: it
\* returns that answer.
C30_StopsAtFirst ==
    \A i \in 1..Len(client.seen) :
        client.seen[i] \in {"SUCCESS", "FAILURE"} =>
            /\ i = Len(client.seen)
            /\ client.pc = "returned"
            /\ client.returned = client.status_data

\* C30: for a batch AI task submitted with a non-empty product list, once
\* the task has finished successfully the task-status endpoint reports
\* SUCCESS with result {products: [r1..rn]}, one result per submitted
\* product in submission order; a result is present only when the task
\* succeeded and an error only when it finished unsuccessfully; a client
\* polling as wait_for_task_completion does stops at the first SUCCESS or
\* FAILURE.
C30_BatchTaskStatus ==
    /\ []C30_SuccessListsEveryProduct
    /\ []C30_ResultOnlyOnSuccess
    /\ C30_FinishedReportsSuccess
    /\ []C30_StopsAtFirst

\* The client returned the SUCCESS answer of a batch of two different
\* products, the first of which got an error dict from the model, after an
\* earlier poll answered STARTED.
C30_Witness ==
    /\ client.pc = "returned"
    /\ client.returned = SuccessData
    /\ Len(ai.products) = 2
    /\ ai.products[1] # ai.products[2]
    /\ ai.result[1].error # ""
    /\ ai.result[2].error = ""
    /\ \E i \in 1..Len(client.seen) : client.seen[i] = "STARTED"

====
